---------------------------- MODULE Spec2Model ----------------------------
(***************************************************************************)
(* JobHunter outreach backend: the website crawler (crawl.ts), the URL     *)
(* canonicalizer (urls.ts), the transport wrappers (fetch.ts) and the      *)
(* email extraction engine (emailExtract.ts), as state machines.           *)
(*                                                                         *)
(* Strings the code takes apart (URLs, e-mail addresses) are records of    *)
(* their parts; a local part is the sequence of its characters and a       *)
(* domain the sequence of its labels, so that the code's lower-casing,     *)
(* prefix, suffix and character-class tests are computed, not assumed.     *)
(***************************************************************************)
EXTENDS Integers, Sequences, FiniteSets, TLC

VARIABLES
    \* ---- resolveCanonicalBaseUrl (urls.ts) ----
    rInput,        \* the input string, as its parts
    rHost,         \* extractHostnameCandidate(input)
    rCandidates,   \* buildOriginCandidates(host)
    rIdx,          \* position of the for-loop over candidates (1-based)
    rLog,          \* history: every probeUrl call made, with what it returned
    rResult,       \* the value returned
    rPc,           \* "start" | "probing" | "fallback" | "done" | "threw" | "idle"
    \* ---- crawlForEmails (crawl.ts) ----
    website,       \* the input website
    opts,          \* the options object: [maxPages, topLinksToVisit], each <<>> when omitted
    scenario,      \* the site: "any", or the fixture "kontakt" or "directory"
    candidatePaths,\* the path list buildCandidatePaths uses
    maxPages,
    topLinksToVisit,
    base,
    baseHost,
    queue,         \* string[]        (sequence of URLs)
    enqueued,      \* Set<string>
    visited,       \* Set<string>
    foundEmails,   \* Set<string>     (a JS Set iterates in insertion order)
    evidenceUrls,  \* string[]
    scoredLinks,   \* Map<string,number> (a JS Map iterates in insertion order)
    siteContext,   \* SiteContext | undefined
    url,           \* the URL of the current loop iteration
    pc,            \* "start" | "loop" | "fetching" | "sleeping" | "done" | "threw" | "idle"
    result,        \* the CrawlResult returned
    fetchLog,      \* history: every fetchHtml call made, with what came of it
    sleeps,        \* history: number of inter-page delays slept
    \* ---- rankEmails (crawl.ts), called on its own ----
    rankIn,        \* emails
    rankHost,      \* baseHost
    rankOut,       \* the array returned
    rankPc,        \* "call" | "done" | "idle"
    \* ---- extractEmailsFromText (emailExtract.ts), called on its own ----
    exText,        \* text
    exOut,         \* the array returned
    exPc,          \* "call" | "done" | "idle"
    \* ---- canonicalizeLeadWebsites (discoverJobs.ts) ----
    leads,         \* JobLead[]: [id, website]
    poolOpts,      \* the options object: [concurrency], <<>> when omitted
    excludeSet,    \* Set<string> of normalized domains
    concurrency,
    poolOut,       \* out: JobLead[] of leads.length, <<>> is a hole, <<l>> an element
    idx,           \* the shared index (0-based)
    resolved,
    blocked,
    aggregators,
    failed,
    workers,       \* per worker(): [pc: "awaiting" | "done", i: its const i, -1 once returned]
    poolPc,        \* "call" | "running" | "done" | "idle"
    poolResult,    \* the array returned
    claimLog,      \* history, per index: the workers whose i it was (i < leads.length)
    procLog,       \* history, per index: every (worker, website) written to out[i]
    \* ---- validateEmail and checkSmtp (emailValidator.ts) ----
    valEmail,      \* email, as [user, domain]
    valOpts,       \* options: [skipSmtp]
    valPc,         \* "call" | "mx" | "smtp" | "done" | "idle"
    valResult,     \* the EmailValidationResult returned
    smtpStep,      \* step
    smtpSocket,    \* "none" | "open" | "destroyed" | "closed"
    smtpTimeout,   \* TRUE while the setTimeout is pending
    smtpIsCatchAll,\* isCatchAll
    smtpResolved,  \* what the promise was resolved with, Undefined while pending
    smtpLog,       \* history: the replies acted on (step, code), timeouts, errors, closes
    \* ---- sendApplications (sendApplications.ts), sendDrafts (sendDrafts.ts) ----
    sendItems,     \* items, as far as the for..of loop has read the array
    sendOpts,      \* opts: [dryRun, dedupe, delayMs, cvFilename], each <<>> when omitted
    sendDryRun,    \* dryRun
    sendDedupe,    \* dedupe
    sendDelayMs,   \* delayMs
    sentKeys,      \* sentKeys, the in-memory Set
    sentFile,      \* SENT_FILE: [exists, records]
    sendResults,   \* results
    sendI,         \* position in items of the iteration in progress, from 1
    sendPc,        \* "idle" | "loop" | "sending" | "sleeping" | "done" | "threw"
    sendReturned,  \* what the call returned
    sendCalls,     \* history: the number of calls made
    sendOkCount,   \* history: per (recipient, subject), the sendEmail calls that
                   \* succeeded inside a call with dedupe enabled
    \* ---- job schedules (jobSchedules.ts, jobRunner.ts, server.ts) ----
    schedFile,     \* job_schedules.json as loadSchedules returns it
    clock,         \* Date.now(), in hours
    storeOps,      \* the store operations awaiting saveSchedules: [job, toSave, desc]
    opsDone,       \* history: the store operations that returned, in that order
    schedCalls,    \* history: the number of store operations called on their own
    jobs,          \* the runScheduledJob executions in progress
    jobsStarted,   \* history: the number of runScheduledJob executions started
    jobSchedulerRunning,
    sweepPc,       \* checkJobSchedules: "idle" | "loading" | "loop" | "awaiting"
    sweepDue       \* due, the schedules the loop has not reached yet

resolveVars == <<rInput, rHost, rCandidates, rIdx, rLog, rResult, rPc>>
crawlVars == <<website, opts, scenario, candidatePaths, maxPages, topLinksToVisit, base,
               baseHost, queue, enqueued, visited, foundEmails, evidenceUrls,
               scoredLinks, siteContext, url, pc, result, fetchLog, sleeps>>
rankVars == <<rankIn, rankHost, rankOut, rankPc>>
extractVars == <<exText, exOut, exPc>>
poolVars == <<leads, poolOpts, excludeSet, concurrency, poolOut, idx, resolved, blocked,
              aggregators, failed, workers, poolPc, poolResult, claimLog, procLog>>
smtpVars == <<valEmail, valOpts, valPc, valResult, smtpStep, smtpSocket, smtpTimeout,
              smtpIsCatchAll, smtpResolved, smtpLog>>
sendVars == <<sendItems, sendOpts, sendDryRun, sendDedupe, sendDelayMs, sentKeys, sentFile,
              sendResults, sendI, sendPc, sendReturned, sendCalls, sendOkCount>>
schedVars == <<schedFile, clock, storeOps, opsDone, schedCalls, jobs, jobsStarted,
               jobSchedulerRunning, sweepPc, sweepDue>>
vars == <<resolveVars, crawlVars, rankVars, extractVars, poolVars, smtpVars, sendVars,
          schedVars>>
\* What a function leaves alone: the state of the others
notResolveVars == <<crawlVars, rankVars, extractVars, poolVars, smtpVars, sendVars, schedVars>>
notCrawlVars == <<resolveVars, rankVars, extractVars, poolVars, smtpVars, sendVars, schedVars>>
notRankVars == <<resolveVars, crawlVars, extractVars, poolVars, smtpVars, sendVars, schedVars>>
notExtractVars == <<resolveVars, crawlVars, rankVars, poolVars, smtpVars, sendVars, schedVars>>
notPoolVars == <<resolveVars, crawlVars, rankVars, extractVars, smtpVars, sendVars, schedVars>>
notSmtpVars == <<resolveVars, crawlVars, rankVars, extractVars, poolVars, sendVars, schedVars>>
notSendVars == <<resolveVars, crawlVars, rankVars, extractVars, poolVars, smtpVars, schedVars>>
notSchedVars == <<resolveVars, crawlVars, rankVars, extractVars, poolVars, smtpVars, sendVars>>

(***************************************************************************)
(* Generic helpers                                                         *)
(***************************************************************************)
Max2(a, b) == IF a > b THEN a ELSE b
Min2(a, b) == IF a < b THEN a ELSE b
Range(s) == {s[i] : i \in 1..Len(s)}
NoDup(s) == \A i, j \in 1..Len(s) : i # j => s[i] # s[j]
IsPrefix(p, s) == Len(p) <= Len(s) /\ SubSeq(s, 1, Len(p)) = p
IsSuffix(p, s) == Len(p) <= Len(s) /\ SubSeq(s, Len(s) - Len(p) + 1, Len(s)) = p

Null == [null |-> TRUE]
Undefined == [undefined |-> TRUE]

(***************************************************************************)
(* URLs.  A URL string is the record of its parts: "https://www.firma.de/x"*)
(* is [scheme |-> "https", www |-> 1, name |-> "firma.de", path |-> "/x"]. *)
(* www counts the leading "www." labels of the host.  name = "" is a       *)
(* string new URL() cannot parse.                                          *)
(***************************************************************************)
Url(scheme, www, name, path) ==
    [scheme |-> scheme, www |-> www, name |-> name, path |-> path]
Hostname(www, name) == [www |-> www, name |-> name]
NoHost == Hostname(0, "")
EmptyString == Url("", 0, "", "")

\* new URL(s) succeeds
Parses(u) == u.name # "" /\ u.scheme # ""
\* new URL(s).hostname
HostnameOf(u) == Hostname(u.www, u.name)
\* new URL(s).origin
OriginOf(u) == Url(u.scheme, u.www, u.name, "")
\* new URL(s).toString(): an empty path is written "/"
Href(u) == [u EXCEPT !.path = IF u.path = "" THEN "/" ELSE u.path]


(***************************************************************************)
(* Input strings (a website typed by a user or written by a model).        *)
(* Input(scheme, www, name, path, trail): [scheme://][www.]*name[path]     *)
(* followed by trail, a run of trailing punctuation such as ")," .         *)
(* name = "" is text that holds no hostname and that new URL() rejects     *)
(* whatever is put before or after it, such as "not a url".                *)
(***************************************************************************)
Input(scheme, www, name, path, trail) ==
    [scheme |-> scheme, www |-> www, name |-> name, path |-> path, trail |-> trail]

\* if (!/^https?:\/\//i.test(s)) s = "https://" + s; s = s.replace(/\/+$/, "")
\* Trailing punctuation stays in the string, and new URL() rejects a host
\* that ends in it.
normalizeBaseUrl(input) ==
    Url(IF input.scheme = "" THEN "https" ELSE input.scheme,
        input.www,
        IF input.trail = "" THEN input.name ELSE "",
        IF input.path = "/" THEN "" ELSE input.path)

\* Trailing punctuation trimmed, a scheme added when missing, new URL(),
\* hostname lower-cased, one leading "www." removed.
extractHostnameCandidate(input) ==
    IF input.name = "" THEN NoHost
    ELSE Hostname(IF input.www > 0 THEN input.www - 1 ELSE 0, input.name)

\* Variant of buildOriginCandidates that tries both bare origins before the
\* www ones
buildOriginCandidatesBareFirst(host) ==
    IF host = NoHost THEN <<>>
    ELSE LET withWww == IF host.www > 0 THEN host ELSE Hostname(1, host.name)
         IN  <<Url("https", host.www, host.name, ""), Url("http", host.www, host.name, "")>>
             \o (IF withWww # host
                 THEN <<Url("https", withWww.www, withWww.name, ""),
                        Url("http", withWww.www, withWww.name, "")>>
                 ELSE <<>>)

\* base = h; withWww = h.startsWith("www.") ? h : "www." + h
buildOriginCandidates(host) ==
    IF host = NoHost THEN <<>>
    ELSE LET withWww == IF host.www > 0 THEN host ELSE Hostname(1, host.name)
             https(h) == Url("https", h.www, h.name, "")
             http(h) == Url("http", h.www, h.name, "")
         IN  <<https(host)>>
             \o (IF withWww # host THEN <<https(withWww)>> ELSE <<>>)
             \o <<http(host)>>
             \o (IF withWww # host THEN <<http(withWww)>> ELSE <<>>)

(***************************************************************************)
(* The network, as undici's fetch(url) shows it: the call throws (network  *)
(* error, or the abort timer fired) or resolves to a response with a       *)
(* status, a content type, a body and the final URL after redirects.       *)
(***************************************************************************)
Thrown(why) == [threw |-> TRUE, why |-> why, status |-> 0, url |-> EmptyString,
                html |-> TRUE, body |-> Undefined]
Response(status, finalUrl, html, body) ==
    [threw |-> FALSE, why |-> "", status |-> status, url |-> finalUrl,
     html |-> html, body |-> body]

\* What a GET of probe URL u can come to: a throw, or any status with a final
\* URL: u itself, the https www variant (a redirect), a non-http(s) URL, a
\* string new URL() rejects, or no URL at all.
ProbeTransport(u) ==
    {Thrown("network"), Thrown("timeout")}
    \cup {Response(st, f, FALSE, Undefined) :
            st \in {200, 403},
            f \in {Href(u), Url("https", 1, u.name, "/"), Url("ftp", u.www, u.name, "/"),
                   Url("", 0, "not a url", ""), EmptyString}}

\* Variant of probeUrl without the catch: a throw of fetch leaves it
probeUrlNoCatch(t) ==
    IF t.threw THEN [ok |-> FALSE, status |-> 0, finalUrl |-> EmptyString, threw |-> TRUE]
    ELSE [ok |-> TRUE, status |-> t.status, finalUrl |-> t.url, threw |-> FALSE]

\* probeUrl: any response is ok, a throw becomes {ok: false}
probeUrl(t) ==
    IF t.threw THEN [ok |-> FALSE, status |-> 0, finalUrl |-> EmptyString, threw |-> FALSE]
    ELSE [ok |-> TRUE, status |-> t.status, finalUrl |-> t.url, threw |-> FALSE]

\* The body of the for-loop of resolveCanonicalBaseUrl after the probe has
\* returned r: the origin returned, or Undefined for `continue`.
ProbeVerdict(r) ==
    IF ~r.ok \/ r.finalUrl = EmptyString THEN Undefined
    ELSE IF ~Parses(r.finalUrl) THEN Undefined
    ELSE IF r.finalUrl.scheme \notin {"http", "https"} THEN Undefined
    ELSE OriginOf(r.finalUrl)

\* try { return new URL(`https://${host}`).origin } catch { return null }
FallbackOrigin(host) ==
    LET u == Url("https", host.www, host.name, "")
    IN  IF Parses(u) THEN OriginOf(u) ELSE Null

ResolveIdle ==
    /\ rInput = Input("", 0, "", "", "")
    /\ rHost = NoHost
    /\ rCandidates = <<>>
    /\ rIdx = 0
    /\ rLog = <<>>
    /\ rResult = Undefined
    /\ rPc = "idle"

\* const host = extractHostnameCandidate(input); if (!host) return null;
\* const candidates = buildOriginCandidates(host);
ResolveStart ==
    /\ rPc = "start"
    /\ LET host == extractHostnameCandidate(rInput)
       IN  /\ rHost' = host
           /\ IF host = NoHost
              THEN /\ rResult' = Null
                   /\ rPc' = "done"
                   /\ UNCHANGED <<rCandidates, rIdx>>
              ELSE /\ rCandidates' = buildOriginCandidates(host)
                   /\ rIdx' = 1
                   /\ rPc' = "probing"
                   /\ UNCHANGED rResult
    /\ UNCHANGED <<rInput, rLog, notResolveVars>>

\* One iteration: await probeUrl(origin + "/"), then return or continue; the
\* fallback after the last candidate runs in the same turn.
ResolveProbe ==
    /\ rPc = "probing"
    /\ rIdx <= Len(rCandidates)
    /\ \E t \in ProbeTransport(rCandidates[rIdx]) :
         LET r == probeUrl(t)
             v == ProbeVerdict(r)
         IN  /\ rLog' = Append(rLog, [origin |-> rCandidates[rIdx], r |-> r])
             /\ IF r.threw
                THEN /\ rPc' = "threw"
                     /\ UNCHANGED <<rIdx, rResult>>
                ELSE IF v # Undefined
                THEN /\ rResult' = v
                     /\ rPc' = "done"
                     /\ UNCHANGED rIdx
                ELSE IF rIdx < Len(rCandidates)
                THEN /\ rIdx' = rIdx + 1
                     /\ UNCHANGED <<rResult, rPc>>
                ELSE /\ rIdx' = rIdx + 1
                     /\ rResult' = FallbackOrigin(rHost)
                     /\ rPc' = "done"
    /\ UNCHANGED <<rInput, rHost, rCandidates, notResolveVars>>


(***************************************************************************)
(* E-mail addresses.  A local part is the sequence of its characters, a    *)
(* domain the sequence of its labels: hello@firma.de is                    *)
(* [user |-> <<"h","e","l","l","o">>, domain |-> <<"firma","de">>].        *)
(***************************************************************************)
Email(user, domain) == [user |-> user, domain |-> domain]

Digits == {"0", "1", "2", "3", "4", "5", "6", "7", "8", "9"}
LowerLetters == {"a", "b", "c", "d", "e", "f", "g", "h", "i", "j", "k", "l", "m",
                 "n", "o", "p", "q", "r", "s", "t", "u", "v", "w", "x", "y", "z"}
UserPunct == {".", "_", "+", "-"}

\* String.prototype.toLowerCase, on the characters and labels of the model
toLowerCase(c) ==
    CASE c = "H" -> "h" [] c = "I" -> "i" [] c = "Q" -> "q"
      [] c = "Firma" -> "firma" [] c = "DE" -> "de"
      [] OTHER -> c
LowerSeq(s) == [i \in 1..Len(s) |-> toLowerCase(s[i])]
LowerEmail(e) == Email(LowerSeq(e.user), LowerSeq(e.domain))

\* Insertion-ordered Set: add x to the sequence s unless it is there
SetAdd(s, x) == IF x \in Range(s) THEN s ELSE Append(s, x)
RECURSIVE SetAddAll(_, _)
SetAddAll(s, xs) ==
    IF xs = <<>> THEN s ELSE SetAddAll(SetAdd(s, Head(xs)), Tail(xs))

(***************************************************************************)
(* The lexicon (config/lexicon.yaml, read by loadLexicon): the word lists  *)
(* the filters and the link scorer consult.                                *)
(***************************************************************************)
BLOCKED_DOMAIN_SUFFIXES == {<<"sentry", "io">>}
BLOCKED_EXTENSIONS == {"png"}
GOOD_PREFIXES == {<<"i", "n", "f", "o">>, <<"h", "e", "l", "l", "o">>}
RESERVED_DOMAINS == {<<"example", "com">>}
BOUNCE_FAKE_DOMAINS == {<<"mailinator", "com">>}
PLACEHOLDER_USERS == {<<"y", "o", "u">>}
FREE_EMAIL_DOMAINS == {<<"gmail", "com">>}
\* blocked_user_patterns, here the one pattern ^[0-9a-f]+$ with 6 or more
\* characters (a hash)
HexChars == Digits \cup {"a", "b", "c", "d", "e", "f"}
looksLikeMachineUser(user) ==
    Len(user) >= 6 /\ \A i \in 1..Len(user) : user[i] \in HexChars
TOKENS_CONTACT == {"kontakt", "contact"}
TOKENS_LEGAL == {"impressum"}
TOKENS_ABOUT == {"team"}
URL_HINTS == {"kontakt", "contact", "impressum"}

(***************************************************************************)
(* emailExtract.ts                                                         *)
(***************************************************************************)
\* BLOCKED_EXTENSIONS.some(ext => lower.endsWith(ext))
looksLikeFile(email) ==
    email.domain # <<>> /\ email.domain[Len(email.domain)] \in BLOCKED_EXTENSIONS

\* the suffix itself, or any subdomain of it
isBlockedDomain(domain) ==
    \/ domain \in BLOCKED_DOMAIN_SUFFIXES
    \/ \E suf \in BLOCKED_DOMAIN_SUFFIXES : IsSuffix(suf, domain) /\ Len(domain) > Len(suf)

\* /^[a-z0-9._+-]+$/
hasOnlyAllowedEmailChars(user) ==
    /\ user # <<>>
    /\ \A i \in 1..Len(user) : user[i] \in LowerLetters \cup Digits \cup UserPunct

DigitCount(user) == Cardinality({i \in 1..Len(user) : user[i] \in Digits})

\* digitRatio > 0.4 is digitCount / length > 2/5
looksHumanEnough(user) ==
    IF user \in GOOD_PREFIXES THEN TRUE
    ELSE IF Len(user) > 40 THEN FALSE
    ELSE IF user = <<>> THEN FALSE
    ELSE ~(5 * DigitCount(user) > 2 * Len(user))

\* Length of the leading run of digits
RECURSIVE DigitRun(_)
DigitRun(user) ==
    IF user # <<>> /\ Head(user) \in Digits THEN 1 + DigitRun(Tail(user)) ELSE 0

\* normalizedText.toLowerCase().includes(`${candidateUser}@${d}`): some
\* address-like stretch of the text ends its local part with candidateUser
\* and goes on with the domain d
TextIncludes(text, candidateUser, d) ==
    \E i \in 1..Len(text) :
        /\ IsSuffix(candidateUser, LowerSeq(text[i].user))
        /\ IsPrefix(d, LowerSeq(text[i].domain))

\* /^(\d{3,})([a-z][a-z0-9._%+-]{1,})$/ then the sanity checks, then the
\* two grounds for stripping
decontaminatePhoneSuffixUser(user, domain, normalizedText) ==
    LET u == LowerSeq(user)
        d == LowerSeq(domain)
        n == DigitRun(u)
        candidateUser == SubSeq(u, n + 1, Len(u))
        matches ==
            /\ n >= 3
            /\ Len(candidateUser) >= 2
            /\ candidateUser[1] \in LowerLetters
            /\ \A i \in 1..Len(candidateUser) :
                  candidateUser[i] \in LowerLetters \cup Digits \cup UserPunct \cup {"%"}
    IN  IF ~matches THEN u
        ELSE IF looksLikeMachineUser(candidateUser) THEN u
        ELSE IF ~looksHumanEnough(candidateUser) THEN u
        ELSE IF TextIncludes(normalizedText, candidateUser, d) THEN candidateUser
        ELSE IF n >= 5 THEN candidateUser
        ELSE u

isPlaceholderOrTest(user, domain) ==
    \/ domain \in RESERVED_DOMAINS
    \/ domain \in BOUNCE_FAKE_DOMAINS
    \/ (user \in PLACEHOLDER_USERS /\ domain \in FREE_EMAIL_DOMAINS)

\* Labels are lower-case letters, digits and dashes by the regex; the model
\* writes an empty label for a leading or doubled dot and "-x" for a leading
\* dash.  The last label is letters only, two or more.
BadEdgeLabels == {"", "-x"}
isValidDomain(domain) ==
    /\ Len(domain) >= 2
    /\ domain[1] \notin BadEdgeLabels
    /\ domain[Len(domain)] \notin BadEdgeLabels

isValidUser(user) ==
    /\ user # <<>>
    /\ hasOnlyAllowedEmailChars(user)
    /\ user[1] \notin UserPunct
    /\ user[Len(user)] \notin UserPunct
    /\ ~\E i \in 1..(Len(user) - 1) : user[i] \in UserPunct /\ user[i + 1] \in UserPunct
    /\ ~looksLikeMachineUser(user)
    /\ looksHumanEnough(user)

\* How an address-like stretch of text writes its "@": the forms the two
\* normalizers rewrite to "@", and one they do not know.
AtForms == {"@", "(at)", "[at]", "&#64;", " at ", "{at}"}
\* normalizeTextForEmailHarvest (crawl.ts) rewrites the entities, (at), [at]
\* and " at "
normalizeTextForEmailHarvest(text) ==
    [i \in 1..Len(text) |->
        [text[i] EXCEPT !.at = IF @ \in {"&#64;", "(at)", "[at]", " at "} THEN "@" ELSE @]]
\* normalizeEmailText (emailExtract.ts) rewrites the entities, (at) and [at]
normalizeEmailText(text) ==
    [i \in 1..Len(text) |->
        [text[i] EXCEPT !.at = IF @ \in {"&#64;", "(at)", "[at]"} THEN "@" ELSE @]]

\* A text is the sequence of its address-like stretches, each
\* [user, domain, at]; EMAIL_REGEX matches those written with "@".
RECURSIVE ExtractLoop(_, _, _)
ExtractLoop(rest, normalized, out) ==
    IF rest = <<>> THEN out
    ELSE LET m == Head(rest)
             domain == LowerSeq(m.domain)
             user == decontaminatePhoneSuffixUser(LowerSeq(m.user), domain, normalized)
             email == Email(user, domain)
             keep == /\ m.at = "@"
                     /\ m.user # <<>> /\ m.domain # <<>>
                     /\ isValidUser(user)
                     /\ isValidDomain(domain)
                     /\ ~isBlockedDomain(domain)
                     /\ ~isPlaceholderOrTest(user, domain)
                     /\ ~looksLikeFile(email)
         IN  ExtractLoop(Tail(rest), normalized, IF keep THEN SetAdd(out, email) ELSE out)

extractEmailsFromText(text) ==
    LET normalized == normalizeEmailText(text)
    IN  ExtractLoop(normalized, normalized, <<>>)

ExtractIdle ==
    /\ exText = <<>>
    /\ exOut = <<>>
    /\ exPc = "idle"


(***************************************************************************)
(* HTML pages.  A page is what the crawler reads from its HTML:            *)
(*   ctx     what extractSiteContext summarises (the page's identity)      *)
(*   html    the address-like stretches of the raw markup                  *)
(*   body    those of $("body").text()                                     *)
(*   attrs   those of the attribute values, one per value                  *)
(*   mailto  the addresses of the a[href^='mailto:'] links                 *)
(*   anchors the a[href] elements in document order                        *)
(***************************************************************************)
Page(ctx, html, body, attrs, mailto, anchors) ==
    [ctx |-> ctx, html |-> html, body |-> body, attrs |-> attrs,
     mailto |-> mailto, anchors |-> anchors]
Occ(user, domain, at) == [user |-> user, domain |-> domain, at |-> at]
\* An a[href]: kind is "rel" (a path, resolved against the page's URL),
\* "abs" (scheme://host/path), "mailto", "tel", "javascript", "fragment"
\* (#...) or "bad" (new URL() throws).
Anchor(kind, scheme, www, name, path, text, nav) ==
    [kind |-> kind, scheme |-> scheme, www |-> www, name |-> name, path |-> path,
     text |-> text, nav |-> nav]

\* s.includes(t), for the strings of the model
SubstringTable ==
    {<<"/kontakt", "kontakt">>, <<"/contact", "contact">>, <<"/contact-us", "contact">>,
     <<"/contacts", "contact">>, <<"/impressum", "impressum">>,
     <<"/wp-content/team.pdf", "/wp-content/">>, <<"/wp-content/team.pdf", ".pdf">>,
     <<"our team", "team">>}
Includes(str, t) == str = t \/ <<str, t>> \in SubstringTable
LowerText(str) ==
    CASE str = "Kontakt" -> "kontakt" [] str = "Impressum" -> "impressum"
      [] str = "Our Team" -> "our team" [] str = "Home" -> "home"
      [] str = "Team" -> "team"
      [] OTHER -> str

textIncludesAny(text, tokens) == \E k \in tokens : Includes(LowerText(text), k)

\* scoreLink.  absUrl is an http(s) URL with its hash removed, so the
\* mailto: bonus and the "#" penalty find nothing to match.
scoreLink(absUrl, anchorText, inNavOrFooter) ==
    LET hints == Cardinality({h \in URL_HINTS :
                    Includes(absUrl.path, h) \/ Includes(absUrl.name, h)})
    IN  (IF absUrl.scheme = "mailto" THEN 100 ELSE 0)
        + 10 * hints
        + (IF textIncludesAny(anchorText, TOKENS_CONTACT) THEN 25 ELSE 0)
        + (IF textIncludesAny(anchorText, TOKENS_LEGAL) THEN 18 ELSE 0)
        + (IF textIncludesAny(anchorText, TOKENS_ABOUT) THEN 10 ELSE 0)
        + (IF inNavOrFooter THEN 8 ELSE 0)
        - (IF Includes(absUrl.path, "/wp-content/") THEN 50 ELSE 0)
        - (IF Includes(absUrl.path, ".pdf") THEN 2 ELSE 0)
        - (IF Includes(absUrl.path, "#") THEN 2 ELSE 0)

\* Map<string, number> in insertion order: a sequence of [u, s]
MapHas(m, u) == \E i \in 1..Len(m) : m[i].u = u
MapGet(m, u) == (CHOOSE e \in Range(m) : e.u = u).s
MapSet(m, u, sc) ==
    IF MapHas(m, u)
    THEN [i \in 1..Len(m) |-> IF m[i].u = u THEN [u |-> u, s |-> sc] ELSE m[i]]
    ELSE Append(m, [u |-> u, s |-> sc])

\* new URL(hrefRaw, currentUrl), stripHashKeepQuery: Undefined when the
\* anchor is skipped
ResolveAnchor(a, currentUrl, host) ==
    IF a.kind \in {"fragment", "javascript", "tel", "mailto", "bad"} THEN Undefined
    ELSE LET abs == IF a.kind = "rel"
                    THEN Url(currentUrl.scheme, currentUrl.www, currentUrl.name, a.path)
                    ELSE Url(a.scheme, a.www, a.name, a.path)
         IN  IF ~Parses(abs) THEN Undefined
             ELSE IF abs.scheme \notin {"http", "https"} THEN Undefined
             ELSE IF HostnameOf(abs) # host THEN Undefined
             ELSE Href(abs)

RECURSIVE CollectLoop(_, _, _, _)
CollectLoop(anchors, currentUrl, host, scored) ==
    IF anchors = <<>> THEN scored
    ELSE LET a == Head(anchors)
             normalized == ResolveAnchor(a, currentUrl, host)
             sc == scoreLink(normalized, a.text, a.nav)
             prev == IF MapHas(scored, normalized) THEN MapGet(scored, normalized) ELSE 0
             next == IF normalized = Undefined THEN scored
                     ELSE IF sc <= 0 THEN scored
                     ELSE IF sc > prev THEN MapSet(scored, normalized, sc)
                     ELSE scored
         IN  CollectLoop(Tail(anchors), currentUrl, host, next)

collectScoredInternalLinks(html, currentUrl, host) ==
    CollectLoop(html.anchors, currentUrl, host, <<>>)

\* The attribute scan reads a value only if it holds "@", "&#64", "(at)" or
\* "[at]"
AttrsScanned(attrs) == SelectSeq(attrs, LAMBDA o : o.at \in {"@", "&#64;", "(at)", "[at]"})

\* href.replace(/^mailto:/i, "").split("?")[0].trim().toLowerCase(), kept
\* if it holds an "@"
MailtoEmails(mailto) ==
    LET kept == SelectSeq(mailto, LAMBDA o : o.at = "@")
    IN  [i \in 1..Len(kept) |-> LowerEmail(Email(kept[i].user, kept[i].domain))]

extractEmailsFromHtmlBetter(html) ==
    LET s1 == extractEmailsFromText(normalizeTextForEmailHarvest(html.html))
        s2 == extractEmailsFromText(normalizeTextForEmailHarvest(html.body))
        s3 == extractEmailsFromText(normalizeTextForEmailHarvest(AttrsScanned(html.attrs)))
        s4 == MailtoEmails(html.mailto)
    IN  SetAddAll(SetAddAll(SetAddAll(SetAddAll(<<>>, s1), s2), s3), s4)

(***************************************************************************)
(* rankEmails                                                              *)
(***************************************************************************)
DomainIncludes(d, token) ==
    \E i \in 1..Len(d) :
        d[i] = token \/ <<d[i], token>> \in {<<"wixsentry", "wix">>, <<"wixsentry", "sentry">>}

\* Variant of scoreEmail whose same-domain bonus is smaller than the prefix
\* bonuses
scoreEmailWeakDomain(e, host) ==
    LET d == LowerSeq(e.domain)
    IN  (IF d = host THEN 5 ELSE 0)
        + (IF e.user = <<"i", "n", "f", "o">> THEN 8 ELSE 0)
        - (IF DomainIncludes(d, "sentry") THEN 20 ELSE 0)
        - (IF DomainIncludes(d, "wix") THEN 10 ELSE 0)

SameDomainBonus == 50
SubdomainBonus == 40
\* host is the base hostname as a domain: its labels, "www" labels first
scoreEmail(e, host) ==
    LET d == LowerSeq(e.domain)
        starts(pre) == e.user = pre
    IN  (IF d = host THEN SameDomainBonus ELSE 0)
        + (IF IsSuffix(host, d) /\ Len(d) > Len(host) THEN SubdomainBonus ELSE 0)
        + (IF starts(<<"i", "n", "f", "o">>) THEN 8 ELSE 0)
        + (IF starts(<<"h", "e", "l", "l", "o">>) THEN 7 ELSE 0)
        + (IF starts(<<"c", "o", "n", "t", "a", "c", "t">>) THEN 7 ELSE 0)
        + (IF starts(<<"o", "f", "f", "i", "c", "e">>) THEN 6 ELSE 0)
        + (IF starts(<<"s", "a", "l", "e", "s">>) THEN 5 ELSE 0)
        + (IF starts(<<"s", "u", "p", "p", "o", "r", "t">>) THEN 4 ELSE 0)
        - (IF DomainIncludes(d, "sentry") THEN 20 ELSE 0)
        - (IF DomainIncludes(d, "wix") THEN 10 ELSE 0)

\* Array.prototype.sort with (a, b) => b.key - a.key, on a sequence of
\* [v, key]: stable, descending.  Insert x after the last element whose key
\* is >= x.key.
RECURSIVE InsertDesc(_, _)
InsertDesc(sorted, x) ==
    IF sorted = <<>> THEN <<x>>
    ELSE IF Head(sorted).key >= x.key
         THEN <<Head(sorted)>> \o InsertDesc(Tail(sorted), x)
         ELSE <<x>> \o sorted
RECURSIVE SortDesc(_)
SortDesc(s) ==
    IF s = <<>> THEN <<>>
    ELSE InsertDesc(SortDesc(SubSeq(s, 1, Len(s) - 1)), s[Len(s)])

\* A hostname string as a domain: "www.firma.de" is <<"www", "firma", "de">>
NameLabels(name) ==
    CASE name = "firma.de" -> <<"firma", "de">>
      [] name = "other.com" -> <<"other", "com">>
      [] name = "example.com" -> <<"example", "com">>
      [] name = "wixsentry.com" -> <<"wixsentry", "com">>
      [] OTHER -> <<name>>
HostLabels(h) == [i \in 1..h.www |-> "www"] \o NameLabels(h.name)

\* emails.map(e => e.toLowerCase())
RECURSIVE LowerAll(_)
LowerAll(s) ==
    IF s = <<>> THEN <<>> ELSE <<LowerEmail(Head(s))>> \o LowerAll(Tail(s))
\* uniq.map(e => ({ v: e, key: score(e) }))
RECURSIVE KeyAll(_, _)
KeyAll(s, host) ==
    IF s = <<>> THEN <<>>
    ELSE <<[v |-> Head(s), key |-> scoreEmail(Head(s), host)]>> \o KeyAll(Tail(s), host)
\* the sorted addresses without their scores
RECURSIVE Values(_)
Values(s) ==
    IF s = <<>> THEN <<>> ELSE <<Head(s).v>> \o Values(Tail(s))

\* Variant of rankEmails that drops the addresses scored below zero
rankEmailsDropsJunk(emails, host) ==
    CHOOSE ranked \in
        { Values(SortDesc(SelectSeq(keyed, LAMBDA k : k.key >= 0))) :
            keyed \in { KeyAll(uniq, HostLabels(host)) :
                uniq \in { SetAddAll(<<>>, LowerAll(emails)) } } } : TRUE

\* Array.from(new Set(emails.map(lower))).sort((a, b) => score(b) - score(a)).
\* Each stage is bound by a quantifier, so its value is computed once.
rankEmails(emails, host) ==
    CHOOSE ranked \in
        { Values(SortDesc(keyed)) :
            keyed \in { KeyAll(uniq, HostLabels(host)) :
                uniq \in { SetAddAll(<<>>, LowerAll(emails)) } } } : TRUE


(***************************************************************************)
(* fetch.ts: fetchHtml                                                     *)
(***************************************************************************)
EmptyHtml == Page("", <<>>, <<>>, <<>>, <<>>, <<>>)

\* Variant of fetchHtml that reports every HTML response as ok, whatever
\* its status
fetchHtmlIgnoresStatus(t) ==
    IF t.threw
    THEN [ok |-> FALSE, html |-> Undefined, finalUrl |-> EmptyString, threw |-> FALSE]
    ELSE IF ~t.html
    THEN [ok |-> FALSE, html |-> Undefined, finalUrl |-> EmptyString, threw |-> FALSE]
    ELSE [ok |-> TRUE, html |-> t.body, finalUrl |-> t.url, threw |-> FALSE]

\* A response that is not text/html or application/xhtml is a failure; else
\* ok is the response's ok (a 2xx status); a throw becomes {ok: false}
fetchHtml(t) ==
    IF t.threw
    THEN [ok |-> FALSE, html |-> Undefined, finalUrl |-> EmptyString, threw |-> FALSE]
    ELSE IF ~t.html
    THEN [ok |-> FALSE, html |-> Undefined, finalUrl |-> EmptyString, threw |-> FALSE]
    ELSE [ok |-> t.status >= 200 /\ t.status <= 299, html |-> t.body,
          finalUrl |-> t.url, threw |-> FALSE]

\* !res.ok || !res.html  (an empty string is falsy)
FetchFailed(res) == ~res.ok \/ res.html = Undefined \/ res.html = EmptyHtml

(***************************************************************************)
(* urls.ts: buildCandidatePaths                                            *)
(***************************************************************************)
FallbackPaths ==
    <<"", "/impressum", "/imprint", "/legal", "/privacy", "/datenschutz", "/contact",
      "/contact-us", "/contacts", "/kontakt", "/get-in-touch", "/info", "/about",
      "/about-us", "/team", "/studio", "/company", "/who-we-are", "/services", "/work",
      "/projects", "/portfolio">>

\* paths.map(p => base + p): base is an origin, or, when canonicalization
\* gave null, the normalized input, whose own path the seed path follows
Concat(b, p) == [b EXCEPT !.path = IF @ = "" THEN p ELSE @ \o p]
buildCandidatePaths(b, lexiconPaths) ==
    LET paths == IF Len(lexiconPaths) > 0 THEN lexiconPaths ELSE FallbackPaths
    IN  [i \in 1..Len(paths) |-> Concat(b, paths[i])]

(***************************************************************************)
(* crawl.ts: crawlForEmails                                                *)
(***************************************************************************)
DefaultMaxPages == 8
DefaultTopLinks == 8
MinTopLinks == 3
MaxTopLinks == 15

\* extractSiteContext(html): the page's summary, here its title
extractSiteContext(html) == [title |-> html.ctx]

\* opts?.x ?? d: an option is <<>> when omitted, <<v>> when given
OrDefault(opt, d) == IF opt = <<>> THEN d ELSE opt[1]

safeHostname(u) == IF Parses(u) THEN HostnameOf(u) ELSE NoHost

\* Variant of enqueue that ignores the priority flag
enqueueAtBack(st, u, priority) ==
    IF u = EmptyString THEN st
    ELSE IF u \in st.e THEN st
    ELSE [q |-> Append(st.q, u), e |-> st.e \cup {u}]

\* Variant of enqueue without the test of the enqueued set
enqueueUnseen(st, u, priority) ==
    IF u = EmptyString THEN st
    ELSE [q |-> IF priority THEN <<u>> \o st.q ELSE Append(st.q, u),
          e |-> st.e \cup {u}]

\* enqueue(u, priority) on the pair [q: queue, e: enqueued]
enqueue(st, u, priority) ==
    IF u = EmptyString THEN st
    ELSE IF u \in st.e THEN st
    ELSE [q |-> IF priority THEN <<u>> \o st.q ELSE Append(st.q, u),
          e |-> st.e \cup {u}]
RECURSIVE EnqueueAll(_, _, _)
EnqueueAll(st, us, priority) ==
    IF us = <<>> THEN st
    ELSE EnqueueAll(enqueue(st, Head(us), priority), Tail(us), priority)

\* for (const [u, s] of next.entries()) { prev = scoredLinks.get(u) ?? 0;
\* if (s > prev) scoredLinks.set(u, s) }
RECURSIVE MergeLoop(_, _)
MergeLoop(links, next) ==
    IF next = <<>> THEN links
    ELSE LET e == Head(next)
             prev == IF MapHas(links, e.u) THEN MapGet(links, e.u) ELSE 0
         IN  MergeLoop(IF e.s > prev THEN MapSet(links, e.u, e.s) ELSE links, Tail(next))
\* Variant of InjectCandidates that takes the first links of the map
\* instead of the best
InjectCandidatesUnsorted(links, vis, enq, top) ==
    LET eligible == SelectSeq(links, LAMBDA e : e.s > 0 /\ e.u \notin vis /\ e.u \notin enq)
    IN  [i \in 1..Min2(top, Len(eligible)) |-> eligible[i].u]

\* Variant of mergeScores that stores the latest score of a URL
RECURSIVE mergeScoresLatest(_, _)
mergeScoresLatest(links, next) ==
    IF next = <<>> THEN links
    ELSE mergeScoresLatest(MapSet(links, Head(next).u, Head(next).s), Tail(next))

mergeScores(links, next) == MergeLoop(links, next)

\* .filter(...).sort((a, b) => b[1] - a[1]).slice(0, topLinksToVisit)
InjectCandidates(links, vis, enq, top) ==
    LET eligible == SelectSeq(links, LAMBDA e : e.s > 0 /\ e.u \notin vis /\ e.u \notin enq)
        keyed == [i \in 1..Len(eligible) |-> [v |-> eligible[i].u, key |-> eligible[i].s]]
        sorted == SortDesc(keyed)
    IN  [i \in 1..Min2(top, Len(sorted)) |-> sorted[i].v]
\* for (const [u] of candidates) enqueue(u, true)
injectTopScoredLinks(st, links, vis, top) ==
    EnqueueAll(st, InjectCandidates(links, vis, st.e, top), TRUE)

(***************************************************************************)
(* The sites crawled.  Any site: every fetch may throw, time out, answer   *)
(* with another content type or status, or return any of the pages below,  *)
(* at the URL asked for or after a redirect.                               *)
(***************************************************************************)
uHello == <<"h", "e", "l", "l", "o">>
uInfoCaps == <<"I", "n", "f", "o">>
uNoreply == <<"n", "o", "r", "e", "p", "l", "y">>
uBob == <<"b", "o", "b">>
dFirma == <<"firma", "de">>
dFirmaCaps == <<"Firma", "DE">>
dSentry == <<"sentry", "io">>
dOther == <<"other", "com">>

KontaktLink == Anchor("rel", "", 0, "", "/kontakt", "Kontakt", TRUE)
HomeLink == Anchor("rel", "", 0, "", "/", "Home", TRUE)
TeamLink == Anchor("rel", "", 0, "", "/team", "Our Team", FALSE)
TeamNavLink == Anchor("rel", "", 0, "", "/team", "Team", TRUE)
PlainLink == Anchor("rel", "", 0, "", "/news", "News", FALSE)
OffsiteLink == Anchor("abs", "https", 0, "other.com", "/kontakt", "Kontakt", TRUE)
MailtoLink == Anchor("mailto", "", 0, "", "", "Kontakt", TRUE)

PageEmpty == Page("empty", <<>>, <<>>, <<>>, <<>>, <<>>)
PageHello ==
    Page("hello", <<Occ(uHello, dFirma, "@")>>, <<Occ(uHello, dFirma, "@")>>, <<>>, <<>>, <<>>)
PageLinks ==
    Page("links", <<>>, <<>>, <<>>, <<>>,
         <<HomeLink, TeamLink, KontaktLink, PlainLink, OffsiteLink>>)
PageMailto ==
    Page("mailto", <<Occ(uNoreply, dSentry, "@"), Occ(uBob, dOther, "@")>>,
         <<Occ(uBob, dOther, "@")>>, <<>>, <<Occ(uNoreply, dSentry, "@")>>, <<MailtoLink>>)
PageCaps ==
    Page("caps", <<Occ(uInfoCaps, dFirmaCaps, "(at)")>>, <<Occ(uInfoCaps, dFirmaCaps, "(at)")>>,
         <<Occ(uHello, dFirma, "&#64;")>>, <<>>, <<TeamNavLink>>)
Pages == {PageEmpty, PageHello, PageLinks, PageMailto, PageCaps}

\* The /kontakt fixture: the homepage holds only the footer link, the
\* address is on /kontakt alone, every other path is missing or empty.
ScenarioHome == Page("home", <<>>, <<>>, <<>>, <<>>, <<KontaktLink>>)
ScenarioKontakt ==
    Page("kontakt", <<Occ(uHello, dFirma, "@")>>, <<Occ(uHello, dFirma, "@")>>, <<>>, <<>>, <<>>)

\* The directory fixture: a page with more eligible links than any
\* topLinksToVisit admits: sixteen plain navigation links first, then /team,
\* /impressum and an unscored link.
MorePaths ==
    <<"/p01", "/p02", "/p03", "/p04", "/p05", "/p06", "/p07", "/p08",
      "/p09", "/p10", "/p11", "/p12", "/p13", "/p14", "/p15", "/p16">>
ImpressumLink == Anchor("rel", "", 0, "", "/impressum", "Impressum", TRUE)
PageDirectory ==
    Page("directory", <<>>, <<>>, <<>>, <<>>,
         [i \in 1..Len(MorePaths) |-> Anchor("rel", "", 0, "", MorePaths[i], "More", TRUE)]
            \o <<TeamLink, ImpressumLink, PlainLink>>)

OffsiteUrl == Url("https", 0, "other.com", "/")

FetchTransport(u, fixture) ==
    IF ~Parses(u) THEN {Thrown("invalid url")}
    ELSE IF fixture = "directory"
    THEN {Thrown("network"),
          Response(200, Href(u), TRUE, PageDirectory),
          Response(200, Href(u), TRUE, PageHello),
          Response(200, Href(u), TRUE, PageLinks)}
    ELSE IF fixture = "kontakt"
    THEN IF u.path \in {"", "/"} THEN {Response(200, Href(u), TRUE, ScenarioHome)}
         ELSE IF u.path = "/kontakt" THEN {Response(200, Href(u), TRUE, ScenarioKontakt)}
         ELSE {Thrown("network"), Response(404, Href(u), TRUE, PageEmpty),
               Response(200, Href(u), TRUE, PageEmpty)}
    ELSE {Thrown("network"), Thrown("timeout"),
          Response(200, Href(u), FALSE, Undefined),
          Response(404, Href(u), TRUE, PageHello),
          Response(200, Href(u), TRUE, EmptyHtml)}
         \cup {Response(200, Href(u), TRUE, p) : p \in Pages}
         \cup {Response(200, OffsiteUrl, TRUE, PageLinks),
               Response(200, [Href(u) EXCEPT !.path = "/kontakt"], TRUE, PageHello)}

\* What resolveCanonicalBaseUrl(website) can return: null without a
\* hostname, else the origin of some probe's final URL or the fallback.
CanonicalOutcomes(input) ==
    UNION {IF host = NoHost THEN {Null}
           ELSE {FallbackOrigin(host)}
                \cup ({ProbeVerdict(probeUrl(t)) :
                         t \in UNION {ProbeTransport(c) : c \in Range(buildOriginCandidates(host))}}
                      \ {Undefined})
           : host \in {extractHostnameCandidate(input)}}

(***************************************************************************)
(* canonicalizeLeadWebsites (discoverJobs.ts): a pool of worker() calls    *)
(* sharing one index.  JavaScript runs each worker without interruption    *)
(* from one await to the next, so a step is the code between two awaits.   *)
(***************************************************************************)
BLOCKED_HOST_SUBSTRINGS ==
    {"facebook.com", "instagram.com", "twitter.com", "x.com", "youtube.com",
     "tiktok.com", "wikipedia.org", "pinterest.com", "reddit.com", "quora.com"}
JOB_AGGREGATORS ==
    {"indeed.com", "indeed.de", "indeed.co.uk", "glassdoor.com", "glassdoor.de",
     "linkedin.com", "linkedin.de", "monster.com", "monster.de", "ziprecruiter.com",
     "simplyhired.com", "careerbuilder.com", "jooble.org",
     "stepstone.de", "stepstone.at", "stepstone.ch", "xing.com", "arbeitsagentur.de",
     "jobware.de", "stellenanzeigen.de", "jobs.de", "meinestadt.de", "kimeta.de",
     "jobvector.de", "absolventa.de", "karriere.de", "metajob.de", "gigajob.de",
     "dasauge.de", "creativejobs.de", "designjobs.de", "medienjobs.de", "jobverde.de",
     "upwork.com", "fiverr.com", "freelancer.com", "99designs.com", "toptal.com",
     "gehalt.de", "kununu.com", "companize.com", "jobted.com", "talent.com",
     "adzuna.de", "neuvoo.de", "jobrapido.com", "jobleads.de", "englishjobs.de",
     "ingamejob.com", "himalayas.app"}

\* host.includes(b): a "www." in front of the name adds no match with these lists
HostIncludes(host, b) == host.name = b \/ <<host.name, b>> \in {<<"wix.com", "x.com">>}
isBlockedHost(host) == \E b \in BLOCKED_HOST_SUBSTRINGS : HostIncludes(host, b)
isJobAggregator(host) ==
    \E agg \in JOB_AGGREGATORS : HostIncludes(host, agg) \/ (host.www = 0 /\ host.name = agg)
\* if (h.startsWith("www.")) h = h.slice(4)
normalizeDomain(host) == Hostname(IF host.www > 0 THEN host.www - 1 ELSE 0, host.name)
isExcludedHost(host, exclude) ==
    IF exclude = {} THEN FALSE ELSE normalizeDomain(host) \in exclude

Lead(id, site) == [id |-> id, website |-> site]

\* Variant of the concurrency clamp without the floor of 1
PoolConcurrencyNoFloor(o) == Min2(OrDefault(o.concurrency, 10), 25)

\* Math.max(1, Math.min(opts.concurrency ?? 10, 25))
PoolConcurrency(o) == Max2(1, Min2(OrDefault(o.concurrency, 10), 25))

\* try { host = new URL(website).hostname } catch { host = extractHostnameCandidate(website) }
\* website is the resolver's origin, or the lead's own string when it gave null
WebsiteHost(canonical, l) ==
    IF canonical # Null THEN HostnameOf(canonical)
    ELSE IF l.website.scheme # "" /\ l.website.name # "" /\ l.website.trail = ""
         THEN Hostname(l.website.www, l.website.name)
         ELSE extractHostnameCandidate(l.website)

\* The branch of the if-chain taken for a host
Verdict(host, exclude) ==
    IF host = NoHost THEN "failed"
    ELSE IF isBlockedHost(host) THEN "blocked"
    ELSE IF isJobAggregator(host) THEN "aggregator"
    ELSE IF isExcludedHost(host, exclude) THEN "excluded"
    ELSE "accepted"

\* The website written to out[i]: "" unless accepted
WebsiteWritten(canonical, l, exclude) ==
    IF Verdict(WebsiteHost(canonical, l), exclude) = "accepted"
    THEN (IF canonical # Null THEN canonical ELSE l.website)
    ELSE EmptyString

\* out.filter((l) => !!l.website): holes are skipped, order is kept
RECURSIVE FilterOut(_)
FilterOut(o) ==
    IF o = <<>> THEN <<>>
    ELSE (IF Head(o) # <<>> /\ Head(o)[1].website # EmptyString THEN Head(o) ELSE <<>>)
         \o FilterOut(Tail(o))

PoolIdle ==
    /\ leads = <<>>
    /\ poolOpts = [concurrency |-> <<>>]
    /\ excludeSet = {}
    /\ concurrency = 0
    /\ poolOut = <<>>
    /\ idx = 0
    /\ resolved = 0
    /\ blocked = 0
    /\ aggregators = 0
    /\ failed = 0
    /\ workers = <<>>
    /\ poolPc = "idle"
    /\ poolResult = <<>>
    /\ claimLog = <<>>
    /\ procLog = <<>>

\* The call up to `await Promise.all(...)`: Array.from starts the workers one
\* after another, and each runs to its first await: worker k takes index
\* k - 1 and calls the resolver, or breaks at once
PoolStart ==
    /\ poolPc = "call"
    /\ LET c == PoolConcurrency(poolOpts)
           n == Len(leads)
       IN  /\ concurrency' = c
           /\ poolOut' = [k \in 1..n |-> <<>>]
           /\ idx' = c
           /\ workers' = [k \in 1..c |->
                            IF k - 1 >= n THEN [pc |-> "done", i |-> -1]
                            ELSE [pc |-> "awaiting", i |-> k - 1]]
           /\ claimLog' = [k \in 1..n |-> IF k <= c THEN <<k>> ELSE <<>>]
           /\ procLog' = [k \in 1..n |-> <<>>]
    /\ poolPc' = "running"
    /\ UNCHANGED <<leads, poolOpts, excludeSet, resolved, blocked, aggregators, failed,
                   poolResult>>
    /\ UNCHANGED notPoolVars

\* The await of resolveCanonicalBaseUrl in worker w returned: the rest of the
\* loop body, then the next `const i = idx++` up to the break or the next await
WorkerResume(w) ==
    /\ poolPc = "running"
    /\ w \in 1..Len(workers)
    /\ workers[w].pc = "awaiting"
    /\ \E i \in {workers[w].i} : \E l \in {leads[i + 1]} :
       \E canonical \in CanonicalOutcomes(l.website) :
       \E v \in {Verdict(WebsiteHost(canonical, l), excludeSet)} :
       \E site \in {WebsiteWritten(canonical, l, excludeSet)} :
          /\ poolOut' = [poolOut EXCEPT ![i + 1] = <<[l EXCEPT !.website = site]>>]
          /\ failed' = failed + (IF v = "failed" THEN 1 ELSE 0)
          /\ blocked' = blocked + (IF v \in {"blocked", "excluded"} THEN 1 ELSE 0)
          /\ aggregators' = aggregators + (IF v = "aggregator" THEN 1 ELSE 0)
          /\ resolved' = resolved + (IF v = "accepted" THEN 1 ELSE 0)
          /\ procLog' = [procLog EXCEPT ![i + 1] = Append(@, [w |-> w, website |-> site])]
    /\ \E next \in {idx} :
          /\ idx' = next + 1
          /\ IF next >= Len(leads)
             THEN /\ workers' = [workers EXCEPT ![w] = [pc |-> "done", i |-> -1]]
                  /\ UNCHANGED claimLog
             ELSE /\ workers' = [workers EXCEPT ![w] = [pc |-> "awaiting", i |-> next]]
                  /\ claimLog' = [claimLog EXCEPT ![next + 1] = Append(@, w)]
    /\ UNCHANGED <<leads, poolOpts, excludeSet, concurrency, poolPc, poolResult>>
    /\ UNCHANGED notPoolVars

\* Promise.all resolved: every worker has returned
PoolReturn ==
    /\ poolPc = "running"
    /\ \A w \in 1..Len(workers) : workers[w].pc = "done"
    /\ poolResult' = FilterOut(poolOut)
    /\ poolPc' = "done"
    /\ UNCHANGED <<leads, poolOpts, excludeSet, concurrency, poolOut, idx, resolved, blocked,
                   aggregators, failed, workers, claimLog, procLog>>
    /\ UNCHANGED notPoolVars


CrawlIdle ==
    /\ website = Input("", 0, "", "", "")
    /\ opts = [maxPages |-> <<>>, topLinksToVisit |-> <<>>]
    /\ scenario = "any"
    /\ candidatePaths = <<>>
    /\ maxPages = 0
    /\ topLinksToVisit = 0
    /\ base = EmptyString
    /\ baseHost = NoHost
    /\ queue = <<>>
    /\ enqueued = {}
    /\ visited = {}
    /\ foundEmails = <<>>
    /\ evidenceUrls = <<>>
    /\ scoredLinks = <<>>
    /\ siteContext = Undefined
    /\ url = EmptyString
    /\ pc = "idle"
    /\ result = Undefined
    /\ fetchLog = <<>>
    /\ sleeps = 0

\* Lines 305-345: the options, the canonical base (the await of
\* resolveCanonicalBaseUrl has returned `canonical`), the seeds.
\* Lines 313-343 for one return value of the resolver
CrawlStartWith(canonical) ==
    LET b == IF canonical # Null THEN canonical ELSE normalizeBaseUrl(website)
        seeded == buildCandidatePaths(b, candidatePaths)
        st == EnqueueAll(enqueue([q |-> <<>>, e |-> {}], b, TRUE), seeded, FALSE)
    IN  /\ base' = b
        /\ baseHost' = safeHostname(b)
        /\ queue' = st.q
        /\ enqueued' = st.e

CrawlStart ==
    /\ pc = "start"
    /\ \E canonical \in CanonicalOutcomes(website) : CrawlStartWith(canonical)
    /\ maxPages' = OrDefault(opts.maxPages, DefaultMaxPages)
    /\ topLinksToVisit' =
         Max2(MinTopLinks, Min2(OrDefault(opts.topLinksToVisit, DefaultTopLinks), MaxTopLinks))
    /\ pc' = "loop"
    /\ UNCHANGED <<website, opts, scenario, candidatePaths, visited, foundEmails,
                   evidenceUrls, scoredLinks, siteContext, url, result, fetchLog, sleeps>>
    /\ UNCHANGED notCrawlVars

\* Variants of the loop condition with a slip in the page budget: an
\* off-by-one comparison, and no budget test at all
LoopConditionOffByOne(q, vis, max) == Len(q) > 0 /\ Cardinality(vis) <= max
LoopConditionNoBudget(q, vis, max) == Len(q) > 0

\* queue.length > 0 && visited.size < maxPages
LoopCondition(q, vis, max) == Len(q) > 0 /\ Cardinality(vis) < max

\* The loop head, run until it stops at an await or leaves the loop:
\* `if (visited.has(url)) continue` drops the URL and tests the condition again.
RECURSIVE SkipVisited(_, _, _)
SkipVisited(q, vis, max) ==
    IF LoopCondition(q, vis, max) /\ Head(q) \in vis
    THEN SkipVisited(Tail(q), vis, max)
    ELSE q

\* Variant of visited.add that forgets the URL
visitedAddNothing(vis, u) == vis

\* visited.add(url)
visitedAdd(vis, u) == vis \cup {u}

\* while (queue.length > 0 && visited.size < maxPages) { url = queue.shift();
\* visited.add(url); res = await fetchHtml(url, timeoutMs) ...
Dequeue ==
    /\ pc = "loop"
    /\ LET q == SkipVisited(queue, visited, maxPages)
       IN  /\ LoopCondition(q, visited, maxPages)
           /\ url' = Head(q)
           /\ queue' = Tail(q)
           /\ visited' = visitedAdd(visited, Head(q))
           /\ fetchLog' = Append(fetchLog, [url |-> Head(q), outcome |-> "pending",
                                            finalUrl |-> EmptyString, emails |-> <<>>,
                                            ctx |-> Undefined, anchors |-> <<>>])
    /\ pc' = "fetching"
    /\ UNCHANGED <<website, opts, scenario, candidatePaths, maxPages, topLinksToVisit,
                   base, baseHost, enqueued, foundEmails, evidenceUrls, scoredLinks,
                   siteContext, result, sleeps>>
    /\ UNCHANGED notCrawlVars

\* What the network did, for the history: a failure is a throw (network
\* error, timeout), another content type, a status that is not 2xx, or an
\* empty body
TransportFailed(t) ==
    \/ t.threw
    \/ ~t.html
    \/ t.status < 200 \/ t.status > 299
    \/ t.body = EmptyHtml

LogReturn(t, emails) ==
    [fetchLog EXCEPT ![Len(fetchLog)] =
        [url |-> url, outcome |-> IF TransportFailed(t) THEN "failed" ELSE "page",
         finalUrl |-> t.url, emails |-> emails,
         ctx |-> IF TransportFailed(t) THEN Undefined ELSE extractSiteContext(t.body),
         anchors |-> IF TransportFailed(t) THEN <<>> ELSE t.body.anchors]]

\* Variant that records every fetched page as evidence
EvidenceAfterAlways(evidence, emailsHere, here) == Append(evidence, here)

\* if (emailsHere.length > 0) evidenceUrls.push(res.finalUrl || url)
EvidenceAfter(evidence, emailsHere, here) ==
    IF Len(emailsHere) > 0 THEN Append(evidence, here) ELSE evidence

\* Variant that takes the context of every page fetched
ContextAfterLatest(context, html) == extractSiteContext(html)

\* if (!siteContext) siteContext = extractSiteContext(html)
ContextAfter(context, html) ==
    IF context = Undefined THEN extractSiteContext(html) ELSE context

\* fetchHtml returned a failure: if (!res.ok || !res.html) { await sleep; continue }
\* (a throw out of fetchHtml would leave crawlForEmails: nothing catches it)
\* Variant that goes back to the loop head without the delay
AfterFailedFetchNoSleep(res) == IF res.threw THEN "threw" ELSE "loop"

\* Variant that delays only when nothing came back
AfterFailedFetchErrorPageNoSleep(res) ==
    IF res.threw THEN "threw" ELSE IF res.html # Undefined THEN "loop" ELSE "sleeping"

\* if (!res.ok || !res.html) { await sleep(delayBetweenPagesMs); continue; }
AfterFailedFetch(res) == IF res.threw THEN "threw" ELSE "sleeping"

\* Lines 370-373 for one outcome of the network: what the crawl does with it
FetchFailWith(t) ==
    LET res == fetchHtml(t)
    IN  /\ res.threw \/ FetchFailed(res)
        /\ pc' = AfterFailedFetch(res)
        /\ UNCHANGED <<website, opts, scenario, candidatePaths, maxPages, topLinksToVisit,
                       base, baseHost, queue, enqueued, visited, foundEmails, evidenceUrls,
                       scoredLinks, siteContext, url, result, sleeps>>

FetchFail ==
    /\ pc = "fetching"
    /\ \E t \in FetchTransport(url, scenario) :
         /\ FetchFailWith(t)
         /\ fetchLog' = LogReturn(t, <<>>)
    /\ UNCHANGED notCrawlVars

\* Lines 375-397 for one outcome of the network: what the crawl does with it
FetchOkWith(t) ==
    LET res == fetchHtml(t)
        html == res.html
        emailsHere == extractEmailsFromHtmlBetter(html)
        here == IF res.finalUrl # EmptyString THEN res.finalUrl ELSE url
        links == collectScoredInternalLinks(html, here, baseHost)
        merged == mergeScores(scoredLinks, links)
        st == injectTopScoredLinks([q |-> queue, e |-> enqueued], merged, visited,
                                   topLinksToVisit)
    IN  /\ ~res.threw
        /\ ~FetchFailed(res)
        /\ siteContext' = ContextAfter(siteContext, html)
        /\ foundEmails' = SetAddAll(foundEmails, emailsHere)
        /\ evidenceUrls' = EvidenceAfter(evidenceUrls, emailsHere, here)
        /\ IF baseHost # NoHost
           THEN /\ scoredLinks' = merged
                /\ queue' = st.q
                /\ enqueued' = st.e
           ELSE UNCHANGED <<scoredLinks, queue, enqueued>>
        /\ pc' = "sleeping"
        /\ UNCHANGED <<website, opts, scenario, candidatePaths, maxPages, topLinksToVisit,
                       base, baseHost, visited, url, result, sleeps>>

\* fetchHtml returned a page: lines 375-397, up to the await of sleep
FetchOk ==
    /\ pc = "fetching"
    /\ \E t \in FetchTransport(url, scenario) :
         /\ FetchOkWith(t)
         /\ fetchLog' = LogReturn(t, extractEmailsFromHtmlBetter(fetchHtml(t).html))
    /\ UNCHANGED notCrawlVars

\* await sleep(delayBetweenPagesMs) returned: back to the loop head
SleepDone ==
    /\ pc = "sleeping"
    /\ sleeps' = sleeps + 1
    /\ pc' = "loop"
    /\ UNCHANGED <<website, opts, scenario, candidatePaths, maxPages, topLinksToVisit,
                   base, baseHost, queue, enqueued, visited, foundEmails, evidenceUrls,
                   scoredLinks, siteContext, url, result, fetchLog>>
    /\ UNCHANGED notCrawlVars

\* The loop condition fails: rank and return
Finish ==
    /\ pc = "loop"
    /\ ~LoopCondition(SkipVisited(queue, visited, maxPages), visited, maxPages)
    /\ queue' = SkipVisited(queue, visited, maxPages)
    /\ result' = [website |-> base,
                  emails |-> IF baseHost # NoHost THEN rankEmails(foundEmails, baseHost)
                             ELSE foundEmails,
                  evidenceUrls |-> evidenceUrls,
                  siteContext |-> siteContext]
    /\ pc' = "done"
    /\ UNCHANGED <<website, opts, scenario, candidatePaths, maxPages, topLinksToVisit,
                   base, baseHost, enqueued, visited, foundEmails, evidenceUrls,
                   scoredLinks, siteContext, url, fetchLog, sleeps>>
    /\ UNCHANGED notCrawlVars

CrawlNext == CrawlStart \/ Dequeue \/ FetchFail \/ FetchOk \/ SleepDone \/ Finish

(***************************************************************************)
(* emailValidator.ts: validateEmail and checkSmtp.  An address is [user,    *)
(* domain]; a step of checkSmtp is one event of the socket or the timer.   *)
(***************************************************************************)
Addr(user, domain) == [user |-> user, domain |-> domain]
\* /^[^\s@]+@[^\s@]+\.[^\s@]{2,}$/: "localhost" has no dot, "firma.x" a short ending
checkSyntax(e) == e.user # "" /\ e.domain \notin {"", "localhost", "firma.x"}
isDisposable(domain) ==
    domain \in {"tempmail.com", "throwaway.email", "guerrillamail.com", "10minutemail.com",
                "mailinator.com", "temp-mail.org", "fakeinbox.com", "sharklasers.com",
                "trashmail.com", "yopmail.com", "getnada.com", "maildrop.cc"}
ROLE_PREFIXES ==
    {"info", "contact", "hello", "support", "sales", "admin", "office", "team", "jobs",
     "careers", "hr", "marketing", "press", "media", "noreply", "no-reply", "donotreply",
     "postmaster", "webmaster"}
\* lower === prefix || lower.startsWith(prefix + ".")
isRoleBased(localPart) ==
    \E prefix \in ROLE_PREFIXES :
        localPart = prefix \/ <<localPart, prefix>> \in {<<"info.berlin", "info">>}
isPlaceholderEmail(e) ==
    LET free == {"gmail.com", "outlook.com", "hotmail.com", "live.com", "yahoo.com",
                 "icloud.com", "proton.me", "protonmail.com", "gmx.com", "zoho.com"}
    IN  IF e.user = "" THEN FALSE
        ELSE \/ e.domain \in {"example.com", "example.net", "example.org", "test",
                              "invalid", "localhost", "local"}
             \/ e.domain \in {"primer.com", "email.com", "someplace.studio"}
             \/ (e.user \in {"example", "email", "name", "name.surname", "yourname",
                             "your.name", "your.email", "yourname.surname"}
                 /\ (e.domain \in free \/ e.domain = "email.com"))
             \/ (e.user \in {"example", "example1"} /\ e.domain \in free)

\* Variant of the RCPT TO reading that takes every refusal for "no such user"
RcptVerdictStrict(code) == IF code = 250 THEN "probe" ELSE "false"

\* step 3: 250 goes on to the catch-all probe, 550..553 is false, else unknown
RcptVerdict(code) ==
    IF code = 250 THEN "probe"
    ELSE IF code \in {550, 551, 552, 553} THEN "false"
    ELSE "unknown"

\* resolve(v): the first call settles the promise
Resolve(v) == IF smtpResolved = Undefined THEN v ELSE smtpResolved
SmtpValue(valid, catchAll) == [valid |-> valid, isCatchAll |-> catchAll]

\* if (smtp.valid === false) { reason = ...; return result }
SmtpRejects(valid) == valid = "false"

\* "Calculate risk", lines 276-286
RiskOf(smtpValid, catchAll, role) ==
    IF smtpValid = "false" THEN "high"
    ELSE IF catchAll \/ smtpValid = "unknown" THEN (IF role THEN "medium" ELSE "low")
    ELSE IF role THEN "medium"
    ELSE "low"

ValResult(valid, smtpValid, catchAll, risk, reason) ==
    [valid |-> valid, smtpValid |-> smtpValid, isCatchAll |-> catchAll,
     risk |-> risk, reason |-> reason]

SmtpIdle ==
    /\ valEmail = Addr("", "")
    /\ valOpts = [skipSmtp |-> FALSE]
    /\ valPc = "idle"
    /\ valResult = Undefined
    /\ smtpStep = 0
    /\ smtpSocket = "none"
    /\ smtpTimeout = FALSE
    /\ smtpIsCatchAll = FALSE
    /\ smtpResolved = Undefined
    /\ smtpLog = <<>>

\* validateEmail up to await checkMx: syntax and disposable checks
ValidateStart ==
    /\ valPc = "call"
    /\ IF ~checkSyntax(valEmail)
       THEN /\ valResult' = ValResult(FALSE, "absent", FALSE, "high", "syntax")
            /\ valPc' = "done"
       ELSE IF isDisposable(valEmail.domain)
       THEN /\ valResult' = ValResult(FALSE, "absent", FALSE, "high", "disposable")
            /\ valPc' = "done"
       ELSE /\ valPc' = "mx"
            /\ UNCHANGED valResult
    /\ UNCHANGED <<valEmail, valOpts, smtpStep, smtpSocket, smtpTimeout, smtpIsCatchAll,
                   smtpResolved, smtpLog>>
    /\ UNCHANGED notSmtpVars

\* Lines 262-286 once the SMTP result (or its absence) is known
ValidateRest(smtpValid, catchAll) ==
    IF smtpValid # "absent" /\ SmtpRejects(smtpValid)
    THEN ValResult(FALSE, smtpValid, catchAll, "high", "smtp")
    ELSE IF isPlaceholderEmail(valEmail)
    THEN ValResult(FALSE, "unknown", FALSE, "high", "placeholder")
    ELSE ValResult(TRUE, smtpValid, catchAll,
                   RiskOf(smtpValid, catchAll, isRoleBased(valEmail.user)),
                   IF smtpValid = "true" /\ ~catchAll /\ isRoleBased(valEmail.user)
                   THEN "role" ELSE "")

\* await checkMx returned: no MX ends the validation; else checkSmtp is
\* called (socket created, timer set, connect) unless skipSmtp
MxReturn ==
    /\ valPc = "mx"
    /\ \E exists \in BOOLEAN :
         IF ~exists
         THEN /\ valResult' = ValResult(FALSE, "absent", FALSE, "high", "mx")
              /\ valPc' = "done"
              /\ UNCHANGED <<smtpSocket, smtpTimeout>>
         ELSE IF valOpts.skipSmtp
         THEN /\ valResult' = ValidateRest("absent", FALSE)
              /\ valPc' = "done"
              /\ UNCHANGED <<smtpSocket, smtpTimeout>>
         ELSE /\ valPc' = "smtp"
              /\ smtpSocket' = "open"
              /\ smtpTimeout' = TRUE
              /\ UNCHANGED valResult
    /\ UNCHANGED <<valEmail, valOpts, smtpStep, smtpIsCatchAll, smtpResolved, smtpLog>>
    /\ UNCHANGED notSmtpVars

\* socket.on("data"): one reply of the server
SmtpData(code) ==
    /\ valPc = "smtp"
    /\ smtpSocket = "open"
    /\ smtpLog' = IF (smtpStep = 0 /\ code # 220) \/ (smtpStep \in {1, 2} /\ code # 250)
                  THEN smtpLog
                  ELSE Append(smtpLog, [ev |-> "data", step |-> smtpStep, code |-> code])
    /\ IF (smtpStep = 0 /\ code = 220) \/ (smtpStep \in {1, 2} /\ code = 250)
       THEN /\ smtpStep' = smtpStep + 1
            /\ UNCHANGED <<smtpSocket, smtpTimeout, smtpIsCatchAll, smtpResolved>>
       ELSE IF smtpStep = 3
       THEN IF RcptVerdict(code) = "probe"
            THEN /\ smtpStep' = 4
                 /\ UNCHANGED <<smtpSocket, smtpTimeout, smtpIsCatchAll, smtpResolved>>
            ELSE /\ smtpTimeout' = FALSE
                 /\ smtpSocket' = "destroyed"
                 /\ smtpResolved' = Resolve(SmtpValue(RcptVerdict(code), FALSE))
                 /\ UNCHANGED <<smtpStep, smtpIsCatchAll>>
       ELSE IF smtpStep = 4
       THEN /\ smtpIsCatchAll' = (code = 250)
            /\ smtpTimeout' = FALSE
            /\ smtpSocket' = "destroyed"
            /\ smtpResolved' = Resolve(SmtpValue("true", code = 250))
            /\ UNCHANGED smtpStep
       ELSE UNCHANGED <<smtpStep, smtpSocket, smtpTimeout, smtpIsCatchAll, smtpResolved>>
    /\ UNCHANGED <<valEmail, valOpts, valPc, valResult>>
    /\ UNCHANGED notSmtpVars

\* The setTimeout callback: socket.destroy(), resolve unknown
SmtpTimedOut ==
    /\ valPc = "smtp"
    /\ smtpTimeout
    /\ smtpTimeout' = FALSE
    /\ smtpSocket' = "destroyed"
    /\ smtpResolved' = Resolve(SmtpValue("unknown", FALSE))
    /\ smtpLog' = Append(smtpLog, [ev |-> "timeout", step |-> smtpStep, code |-> 0])
    /\ UNCHANGED <<valEmail, valOpts, valPc, valResult, smtpStep, smtpIsCatchAll>>
    /\ UNCHANGED notSmtpVars

\* socket.on("error"): clearTimeout, resolve unknown; the socket is closed after it
SmtpError ==
    /\ valPc = "smtp"
    /\ smtpSocket = "open"
    /\ smtpTimeout' = FALSE
    /\ smtpSocket' = "closed"
    /\ smtpResolved' = Resolve(SmtpValue("unknown", FALSE))
    /\ smtpLog' = Append(smtpLog, [ev |-> "error", step |-> smtpStep, code |-> 0])
    /\ UNCHANGED <<valEmail, valOpts, valPc, valResult, smtpStep, smtpIsCatchAll>>
    /\ UNCHANGED notSmtpVars

\* socket.on("close") after the server ended the connection: clearTimeout
SmtpClose ==
    /\ valPc = "smtp"
    /\ smtpSocket = "open"
    /\ smtpTimeout' = FALSE
    /\ smtpSocket' = "closed"
    /\ smtpLog' = Append(smtpLog, [ev |-> "close", step |-> smtpStep, code |-> 0])
    /\ UNCHANGED <<valEmail, valOpts, valPc, valResult, smtpStep, smtpIsCatchAll,
                   smtpResolved>>
    /\ UNCHANGED notSmtpVars

\* await checkSmtp returned: the rest of validateEmail
SmtpReturn ==
    /\ valPc = "smtp"
    /\ smtpResolved # Undefined
    /\ valResult' = ValidateRest(smtpResolved.valid, smtpResolved.isCatchAll)
    /\ valPc' = "done"
    /\ UNCHANGED <<valEmail, valOpts, smtpStep, smtpSocket, smtpTimeout, smtpIsCatchAll,
                   smtpResolved, smtpLog>>
    /\ UNCHANGED notSmtpVars

(***************************************************************************)
(* sendApplications (sendApplications.ts) and sendDrafts (sendDrafts.ts):  *)
(* the two share the code modelled here and differ in the file they keep   *)
(***************************************************************************)
\* A string of an item: its content s once trimmed and lower-cased, whether
\* it is written with surrounding whitespace, whether in upper case
Text(pad, upper, s) == [pad |-> pad, upper |-> upper, s |-> s]
trim(t) == [t EXCEPT !.pad = FALSE]
toLowerCaseText(t) == [t EXCEPT !.upper = FALSE]
\* !s of a string
Falsy(t) == t.s = "" /\ ~t.pad

\* normalizeEmail without toLowerCase
normalizeEmailKeepCase(t) == trim(t)
normalizeEmail(t) == toLowerCaseText(trim(t))

\* /^[^\s@]+@[^\s@]+\.[^\s@]+$/ on the trimmed string
isValidEmail(t) == t.s \in {"bob@firma.de", "eva@firma.de"}

\* sha256(`${to}::${subject}`), a hash without collisions
sha256(to, subject) == <<to, subject>>

\* SENT_FILE: whether it exists, and the array it holds
NoFile == [exists |-> FALSE, records |-> <<>>]
loadSentKeys(file) ==
    IF ~file.exists THEN {} ELSE {file.records[i].key : i \in DOMAIN file.records}
appendSentRecord(file, rec) ==
    LET arr == IF ~file.exists THEN <<>> ELSE file.records
    IN [exists |-> TRUE, records |-> Append(arr, rec)]

SendItem(to, subject, body) == [to |-> to, subject |-> subject, body |-> body]
SendResult(to, subject, ok, dryRun, skipped, error) ==
    [to |-> to, subject |-> subject, ok |-> ok, dryRun |-> dryRun,
     dedupeSkipped |-> skipped, error |-> error]

\* opts.dryRun ?? false
DryRunOfUnsafe(o) == IF o.dryRun = <<>> THEN FALSE ELSE o.dryRun[1]
\* opts.dryRun ?? true
DryRunOf(o) == IF o.dryRun = <<>> THEN TRUE ELSE o.dryRun[1]
DedupeOf(o) == IF o.dedupe = <<>> THEN TRUE ELSE o.dedupe[1]
DefaultDelayMs == 1500
MaxDelayMs == 30000
DelayMsOf(o) ==
    LET d == IF o.delayMs = <<>> THEN DefaultDelayMs ELSE o.delayMs[1]
    IN IF d < 0 THEN 0 ELSE IF d > MaxDelayMs THEN MaxDelayMs ELSE d

DAILY_LIMIT == 50
CountResults(rs, P(_)) == Cardinality({i \in DOMAIN rs : P(rs[i])})
IsSent(r) == r.ok /\ ~r.dryRun /\ ~r.dedupeSkipped
IsSkipped(r) == r.dedupeSkipped
IsDryRunOk(r) == r.ok /\ r.dryRun
IsFailed(r) == ~r.ok
SendStats(rs) ==
    [total |-> Len(rs), sent |-> CountResults(rs, IsSent),
     skippedDuplicates |-> CountResults(rs, IsSkipped),
     dryRunOk |-> CountResults(rs, IsDryRunOk), failed |-> CountResults(rs, IsFailed)]

NoOpts == [dryRun |-> <<>>, dedupe |-> <<>>, delayMs |-> <<>>, cvFilename |-> <<>>]

SendIdle ==
    /\ sendItems = <<>>
    /\ sendOpts = NoOpts
    /\ sendDryRun = TRUE
    /\ sendDedupe = TRUE
    /\ sendDelayMs = 0
    /\ sentKeys = {}
    /\ sentFile = NoFile
    /\ sendResults = <<>>
    /\ sendI = 1
    /\ sendPc = "idle"
    /\ sendReturned = Undefined
    /\ sendCalls = 0
    /\ sendOkCount = <<>>

\* The locals of the item the loop is at
ItemTo == normalizeEmail(sendItems[sendI].to)
ItemSubject == trim(sendItems[sendI].subject)
ItemBody == trim(sendItems[sendI].body)
ItemKey == sha256(ItemTo, ItemSubject)

\* The end of an iteration that did not continue: the delay, if any
AfterItem ==
    IF sendDelayMs > 0
    THEN sendPc' = "sleeping" /\ sendI' = sendI
    ELSE sendPc' = "loop" /\ sendI' = sendI + 1

Counted(f, k) == IF k \in DOMAIN f THEN f[k] ELSE 0
CountOne(f, k) == [x \in DOMAIN f \cup {k} |-> IF x = k THEN Counted(f, k) + 1 ELSE f[x]]

\* A call, once the one before it has settled: the options, loadSentKeys,
\* the check of the attachment, which throws when the file is not there
SendStart(o, cvFound) ==
    /\ sendPc \in {"ready", "done", "threw"}
    /\ sendItems' = <<>>
    /\ sendOpts' = o
    /\ sendDryRun' = DryRunOf(o)
    /\ sendDelayMs' = DelayMsOf(o)
    /\ sendDedupe' = DedupeOf(o)
    /\ sentKeys' = IF DedupeOf(o) THEN loadSentKeys(sentFile) ELSE {}
    /\ sendResults' = <<>>
    /\ sendI' = 1
    /\ sendPc' = IF o.cvFilename # <<>> /\ ~DryRunOf(o) /\ ~cvFound THEN "threw" ELSE "loop"
    /\ sendReturned' = Undefined
    /\ sendCalls' = sendCalls + 1
    /\ UNCHANGED <<sentFile, sendOkCount>>
    /\ UNCHANGED notSendVars

\* One iteration, on the next item of the array, up to its continue, its
\* dry-run result or its await sendEmail
SendIteration(item) ==
    /\ sendPc = "loop"
    /\ sendI = Len(sendItems) + 1
    /\ sendItems' = Append(sendItems, item)
    /\ \E to \in {normalizeEmail(item.to)} : \E subject \in {trim(item.subject)} :
       \E key \in {sha256(to, subject)} :
        IF Falsy(to) \/ Falsy(subject) \/ Falsy(trim(item.body))
        THEN /\ sendResults' = Append(sendResults,
                    SendResult(item.to, subject, FALSE, sendDryRun, FALSE,
                               "Missing to/subject/body"))
             /\ sendI' = sendI + 1
             /\ sendPc' = "loop"
        ELSE IF ~isValidEmail(to)
        THEN /\ sendResults' = Append(sendResults,
                    SendResult(to, subject, FALSE, sendDryRun, FALSE, "Invalid email format"))
             /\ sendI' = sendI + 1
             /\ sendPc' = "loop"
        ELSE IF sendDedupe /\ key \in sentKeys
        THEN /\ sendResults' = Append(sendResults,
                    SendResult(to, subject, TRUE, sendDryRun, TRUE, ""))
             /\ sendI' = sendI + 1
             /\ sendPc' = "loop"
        ELSE IF sendDryRun
        THEN /\ sendResults' = Append(sendResults,
                    SendResult(to, subject, TRUE, TRUE, FALSE, ""))
             /\ AfterItem
        ELSE /\ sendPc' = "sending"
             /\ UNCHANGED <<sendResults, sendI>>
    /\ UNCHANGED <<sendOpts, sendDryRun, sendDedupe, sendDelayMs, sentKeys,
                   sentFile, sendReturned, sendCalls, sendOkCount>>
    /\ UNCHANGED notSendVars

\* await sendEmail returned: the result, the key added and the record appended
SendEmailOk ==
    /\ sendPc = "sending"
    /\ sendResults' = Append(sendResults, SendResult(ItemTo, ItemSubject, TRUE, FALSE, FALSE, ""))
    /\ IF sendDedupe
       THEN /\ sentKeys' = sentKeys \cup {ItemKey}
            /\ sentFile' = appendSentRecord(sentFile,
                               [key |-> ItemKey, to |-> ItemTo, subject |-> ItemSubject])
            /\ sendOkCount' = CountOne(sendOkCount,
                                  <<toLowerCaseText(trim(sendItems[sendI].to)), ItemSubject>>)
       ELSE UNCHANGED <<sentKeys, sentFile, sendOkCount>>
    /\ AfterItem
    /\ UNCHANGED <<sendItems, sendOpts, sendDryRun, sendDedupe, sendDelayMs, sendReturned,
                   sendCalls>>
    /\ UNCHANGED notSendVars

\* await sendEmail threw: the catch
SendEmailThrew ==
    /\ sendPc = "sending"
    /\ sendResults' = Append(sendResults,
            SendResult(ItemTo, ItemSubject, FALSE, FALSE, FALSE, "error"))
    /\ AfterItem
    /\ UNCHANGED <<sendItems, sendOpts, sendDryRun, sendDedupe, sendDelayMs, sentKeys,
                   sentFile, sendReturned, sendCalls, sendOkCount>>
    /\ UNCHANGED notSendVars

\* await sleep(randomDelay) returned
SendSleepDone ==
    /\ sendPc = "sleeping"
    /\ sendI' = sendI + 1
    /\ sendPc' = "loop"
    /\ UNCHANGED <<sendItems, sendOpts, sendDryRun, sendDedupe, sendDelayMs, sentKeys,
                   sentFile, sendResults, sendReturned, sendCalls, sendOkCount>>
    /\ UNCHANGED notSendVars

\* The array has no further item: the stats and the daily limit
SendReturn ==
    /\ sendPc = "loop"
    /\ sendI = Len(sendItems) + 1
    /\ sendReturned' = [ok |-> SendStats(sendResults).sent < DAILY_LIMIT,
                        dryRun |-> sendDryRun, stats |-> SendStats(sendResults)]
    /\ sendPc' = "done"
    /\ UNCHANGED <<sendItems, sendOpts, sendDryRun, sendDedupe, sendDelayMs, sentKeys,
                   sentFile, sendResults, sendI, sendCalls, sendOkCount>>
    /\ UNCHANGED notSendVars

(***************************************************************************)
(* Job schedules (jobSchedules.ts), runScheduledJob (jobRunner.ts), the    *)
(* run-now endpoint and the scheduler sweep (server.ts)                    *)
(***************************************************************************)
\* A JobSchedule, by the fields the bookkeeping reads and writes; times are
\* in hours, lastRunAt and nextRunAt are <<>> when null
JobSchedule(id, intervalHours, enabled, lastRunAt, nextRunAt, lastRunStats, empties, reason) ==
    [id |-> id, intervalHours |-> intervalHours, enabled |-> enabled,
     lastRunAt |-> lastRunAt, nextRunAt |-> nextRunAt, lastRunStats |-> lastRunStats,
     consecutiveEmptyRuns |-> empties, disabledReason |-> reason]
\* The input of upsertSchedule, a Partial<JobSchedule>: <<>> for a key it lacks
ScheduleInput(id, enabled, intervalHours, empties, reason) ==
    [id |-> id, enabled |-> enabled, intervalHours |-> intervalHours,
     consecutiveEmptyRuns |-> empties, disabledReason |-> reason]
\* a ?? b, a || b on a key that may be missing
OrElse(opt, d) == IF opt = <<>> THEN d ELSE opt[1]
\* all.findIndex((x) => x.id === id), from 1, 0 when there is none
FindIndexOfId(all, id) ==
    IF \E i \in DOMAIN all : all[i].id = id
    THEN CHOOSE i \in DOMAIN all : all[i].id = id /\ \A j \in 1..(i - 1) : all[j].id # id
    ELSE 0

DefaultIntervalHours == 24
AutoDisableAfter == 3

upsertSchedule(all, input, now, uuid) ==
    LET id == OrElse(input.id, uuid)
        at == FindIndexOfId(all, id)
    IN IF at > 0
       THEN LET existing == all[at]
                spread == [existing EXCEPT
                              !.enabled = OrElse(input.enabled, @),
                              !.intervalHours = OrElse(input.intervalHours, @),
                              !.consecutiveEmptyRuns = OrElse(input.consecutiveEmptyRuns, @),
                              !.disabledReason = OrElse(input.disabledReason, @)]
                timed == IF /\ input.intervalHours # <<>>
                            /\ input.intervalHours[1] # 0
                            /\ input.intervalHours[1] # existing.intervalHours
                         THEN [spread EXCEPT !.nextRunAt = <<now + input.intervalHours[1]>>]
                         ELSE spread
                updated == IF input.enabled = <<TRUE>> /\ ~existing.enabled
                           THEN [timed EXCEPT !.consecutiveEmptyRuns = 0,
                                              !.disabledReason = ""]
                           ELSE timed
            IN [all EXCEPT ![at] = updated]
       ELSE LET intervalHours == OrElse(input.intervalHours, DefaultIntervalHours)
            IN Append(all, JobSchedule(id, intervalHours, OrElse(input.enabled, TRUE), <<>>,
                                       <<now + intervalHours>>, <<>>, 0, ""))

deleteSchedule(all, id) == SelectSeq(all, LAMBDA x : x.id # id)

\* getSchedulesDue
SchedulesDue(all, now) ==
    SelectSeq(all, LAMBDA s : s.enabled /\ s.nextRunAt # <<>> /\ s.nextRunAt[1] <= now)

\* markScheduleRun that leaves the counter alone when leads were found
markScheduleRunNoReset(all, id, found, now) ==
    LET at == FindIndexOfId(all, id)
    IN IF at = 0
       THEN [all |-> all, saved |-> FALSE, autoDisabled |-> FALSE]
       ELSE LET s == all[at]
                ran == [s EXCEPT !.lastRunAt = <<now>>,
                                 !.nextRunAt = <<now + s.intervalHours>>,
                                 !.lastRunStats = <<found>>]
                n == s.consecutiveEmptyRuns + 1
                marked == IF found = 0
                          THEN IF n >= AutoDisableAfter
                               THEN [ran EXCEPT !.consecutiveEmptyRuns = n,
                                                !.enabled = FALSE,
                                                !.disabledReason = "empty_results"]
                               ELSE [ran EXCEPT !.consecutiveEmptyRuns = n]
                          ELSE ran
            IN [all |-> [all EXCEPT ![at] = marked], saved |-> TRUE,
                autoDisabled |-> (found = 0 /\ n >= AutoDisableAfter)]
\* markScheduleRun up to its saveSchedules: the array to save, whether it is
\* saved at all, the autoDisabled it returns; stats by its found
markScheduleRun(all, id, found, now) ==
    LET at == FindIndexOfId(all, id)
    IN IF at = 0
       THEN [all |-> all, saved |-> FALSE, autoDisabled |-> FALSE]
       ELSE LET s == all[at]
                ran == [s EXCEPT !.lastRunAt = <<now>>,
                                 !.nextRunAt = <<now + s.intervalHours>>,
                                 !.lastRunStats = <<found>>]
                n == s.consecutiveEmptyRuns + 1
                marked == IF found = 0
                          THEN IF n >= AutoDisableAfter
                               THEN [ran EXCEPT !.consecutiveEmptyRuns = n,
                                                !.enabled = FALSE,
                                                !.disabledReason = "empty_results"]
                               ELSE [ran EXCEPT !.consecutiveEmptyRuns = n]
                          ELSE [ran EXCEPT !.consecutiveEmptyRuns = 0]
            IN [all |-> [all EXCEPT ![at] = marked], saved |-> TRUE,
                autoDisabled |-> (found = 0 /\ n >= AutoDisableAfter)]

SchedIdle ==
    /\ schedFile = <<>>
    /\ clock = 0
    /\ storeOps = <<>>
    /\ opsDone = <<>>
    /\ schedCalls = 0
    /\ jobs = <<>>
    /\ jobsStarted = 0
    /\ jobSchedulerRunning = FALSE
    /\ sweepPc = "idle"
    /\ sweepDue = <<>>

RemoveAt(q, k) == [i \in 1..(Len(q) - 1) |-> IF i < k THEN q[i] ELSE q[i + 1]]
StoreOp(job, toSave, desc) == [job |-> job, toSave |-> toSave, desc |-> desc]

\* Time passes
Tick ==
    /\ clock' = clock + 1
    /\ UNCHANGED <<schedFile, storeOps, opsDone, schedCalls, jobs, jobsStarted,
                   jobSchedulerRunning, sweepPc, sweepDue>>
    /\ UNCHANGED notSchedVars

\* upsertSchedule from its call to its await saveSchedules: loadSchedules has
\* returned the file, the array to save is computed
UpsertLoad(input, uuid) ==
    /\ storeOps' = Append(storeOps,
            StoreOp(0, upsertSchedule(schedFile, input, clock, uuid),
                    [kind |-> "upsert", input |-> input, now |-> clock, uuid |-> uuid,
                     reenabled |-> (/\ input.enabled = <<TRUE>>
                                    /\ FindIndexOfId(schedFile, OrElse(input.id, uuid)) > 0
                                    /\ ~schedFile[FindIndexOfId(schedFile,
                                                    OrElse(input.id, uuid))].enabled)]))
    /\ schedCalls' = schedCalls + 1
    /\ UNCHANGED <<schedFile, clock, opsDone, jobs, jobsStarted, jobSchedulerRunning,
                   sweepPc, sweepDue>>
    /\ UNCHANGED notSchedVars

\* deleteSchedule from its call to its await saveSchedules
DeleteLoad(id) ==
    /\ storeOps' = Append(storeOps,
            StoreOp(0, deleteSchedule(schedFile, id), [kind |-> "delete", id |-> id]))
    /\ schedCalls' = schedCalls + 1
    /\ UNCHANGED <<schedFile, clock, opsDone, jobs, jobsStarted, jobSchedulerRunning,
                   sweepPc, sweepDue>>
    /\ UNCHANGED notSchedVars

MarkDesc(id, found, m) ==
    [kind |-> "mark", id |-> id, found |-> found, now |-> clock,
     autoDisabled |-> m.autoDisabled]

\* markScheduleRun called on its own, from its call to its await
\* saveSchedules, or to its return when the schedule is not in the file
MarkLoad(id, found) ==
    /\ \E m \in {markScheduleRun(schedFile, id, found, clock)} :
        IF m.saved
        THEN /\ storeOps' = Append(storeOps, StoreOp(0, m.all, MarkDesc(id, found, m)))
             /\ UNCHANGED opsDone
        ELSE /\ opsDone' = Append(opsDone, MarkDesc(id, found, m))
             /\ UNCHANGED storeOps
    /\ schedCalls' = schedCalls + 1
    /\ UNCHANGED <<schedFile, clock, jobs, jobsStarted, jobSchedulerRunning, sweepPc,
                   sweepDue>>
    /\ UNCHANGED notSchedVars

\* runScheduledJob returned: it leaves the executions in progress, and the
\* sweep that awaited it goes on
JobsWithout(token) == SelectSeq(jobs, LAMBDA j : j.token # token)
SweepAfter(token) ==
    IF \E i \in DOMAIN jobs : jobs[i].token = token /\ jobs[i].origin = "sweep"
    THEN "loop" ELSE sweepPc

\* saveSchedules of the k-th operation in flight writes its array; the
\* operation returns, and with it the runScheduledJob that awaited it
StoreSave(k) ==
    /\ k \in DOMAIN storeOps
    /\ schedFile' = storeOps[k].toSave
    /\ storeOps' = RemoveAt(storeOps, k)
    /\ opsDone' = Append(opsDone, storeOps[k].desc)
    /\ jobs' = JobsWithout(storeOps[k].job)
    /\ sweepPc' = SweepAfter(storeOps[k].job)
    /\ UNCHANGED <<clock, schedCalls, jobsStarted, jobSchedulerRunning, sweepDue>>
    /\ UNCHANGED notSchedVars

Job(token, schedule, origin) ==
    [token |-> token, id |-> schedule.id, origin |-> origin, pc |-> "running"]

\* POST /api/job-schedules/:id/run-now once loadJobSchedules has returned:
\* the schedule is found and enabled, runScheduledJob starts in the background
RunNow(id) ==
    /\ \E i \in DOMAIN schedFile : schedFile[i].id = id /\ schedFile[i].enabled
    /\ jobs' = Append(jobs, Job(jobsStarted + 1, schedFile[FindIndexOfId(schedFile, id)],
                                "runNow"))
    /\ jobsStarted' = jobsStarted + 1
    /\ UNCHANGED <<schedFile, clock, storeOps, opsDone, schedCalls, jobSchedulerRunning,
                   sweepPc, sweepDue>>
    /\ UNCHANGED notSchedVars

\* setInterval fires checkJobSchedules while no sweep is running: the flag
\* is set, getJobSchedulesDue is awaited
SweepStart ==
    /\ ~jobSchedulerRunning
    /\ jobSchedulerRunning' = TRUE
    /\ sweepPc' = "loading"
    /\ UNCHANGED <<schedFile, clock, storeOps, opsDone, schedCalls, jobs, jobsStarted,
                   sweepDue>>
    /\ UNCHANGED notSchedVars

\* await getJobSchedulesDue returned
SweepDue ==
    /\ sweepPc = "loading"
    /\ sweepDue' = SchedulesDue(schedFile, clock)
    /\ sweepPc' = "loop"
    /\ UNCHANGED <<schedFile, clock, storeOps, opsDone, schedCalls, jobs, jobsStarted,
                   jobSchedulerRunning>>
    /\ UNCHANGED notSchedVars

\* for (const schedule of due) await runScheduledJob(schedule)
SweepRun ==
    /\ sweepPc = "loop"
    /\ sweepDue # <<>>
    /\ jobs' = Append(jobs, Job(jobsStarted + 1, Head(sweepDue), "sweep"))
    /\ jobsStarted' = jobsStarted + 1
    /\ sweepDue' = Tail(sweepDue)
    /\ sweepPc' = "awaiting"
    /\ UNCHANGED <<schedFile, clock, storeOps, opsDone, schedCalls, jobSchedulerRunning>>
    /\ UNCHANGED notSchedVars

\* The loop is over: finally
SweepEnd ==
    /\ sweepPc = "loop"
    /\ sweepDue = <<>>
    /\ jobSchedulerRunning' = FALSE
    /\ sweepPc' = "idle"
    /\ UNCHANGED <<schedFile, clock, storeOps, opsDone, schedCalls, jobs, jobsStarted,
                   sweepDue>>
    /\ UNCHANGED notSchedVars

\* runScheduledJob from its search to the await saveSchedules of its
\* markScheduleRun, or to its return when the schedule is not in the file
JobMark(k, found) ==
    /\ k \in DOMAIN jobs
    /\ jobs[k].pc = "running"
    /\ \E m \in {markScheduleRun(schedFile, jobs[k].id, found, clock)} :
        IF m.saved
        THEN /\ storeOps' = Append(storeOps,
                    StoreOp(jobs[k].token, m.all, MarkDesc(jobs[k].id, found, m)))
             /\ jobs' = [jobs EXCEPT ![k].pc = "marking"]
             /\ UNCHANGED <<opsDone, sweepPc>>
        ELSE /\ opsDone' = Append(opsDone, MarkDesc(jobs[k].id, found, m))
             /\ jobs' = JobsWithout(jobs[k].token)
             /\ sweepPc' = SweepAfter(jobs[k].token)
             /\ UNCHANGED storeOps
    /\ UNCHANGED <<schedFile, clock, schedCalls, jobsStarted, jobSchedulerRunning, sweepDue>>
    /\ UNCHANGED notSchedVars

(***************************************************************************)
(* Specifications                                                          *)
(***************************************************************************)
\* Largest maxPages option the crawls of Spec are started with
MaxPagesBound == 3

WebsiteInputs == {Input("", 0, "firma.de", "", ""), Input("", 0, "", "", "")}
ConfiguredPaths == <<"", "/kontakt">>

\* Any site, any maxPages from 0 up, the lexicon's candidate paths
RankIdle ==
    /\ rankIn = <<>>
    /\ rankHost = NoHost
    /\ rankOut = <<>>
    /\ rankPc = "idle"

Init ==
    /\ SmtpIdle
    /\ SendIdle
    /\ SchedIdle
    /\ ResolveIdle
    /\ RankIdle
    /\ ExtractIdle
    /\ PoolIdle
    /\ website \in WebsiteInputs
    /\ opts \in [maxPages : {<<n>> : n \in 0..MaxPagesBound}, topLinksToVisit : {<<>>}]
    /\ scenario = "any"
    /\ candidatePaths = ConfiguredPaths
    /\ maxPages = 0
    /\ topLinksToVisit = 0
    /\ base = EmptyString
    /\ baseHost = NoHost
    /\ queue = <<>>
    /\ enqueued = {}
    /\ visited = {}
    /\ foundEmails = <<>>
    /\ evidenceUrls = <<>>
    /\ scoredLinks = <<>>
    /\ siteContext = Undefined
    /\ url = EmptyString
    /\ pc = "start"
    /\ result = Undefined
    /\ fetchLog = <<>>
    /\ sleeps = 0

Next == CrawlNext

Spec == Init /\ [][Next]_vars

ResolveInputs ==
    {Input("", 0, "example.com", "", ""),
     Input("https", 1, "example.com", "/path", ""),
     Input("", 2, "example.com", "", ""),
     Input("", 0, "example.com", "", "),"),
     Input("http", 0, "", "", ""),
     Input("", 0, "", "", "")}

InitResolve ==
    /\ SmtpIdle
    /\ SendIdle
    /\ SchedIdle
    /\ CrawlIdle
    /\ RankIdle
    /\ ExtractIdle
    /\ PoolIdle
    /\ rInput \in ResolveInputs
    /\ rHost = NoHost
    /\ rCandidates = <<>>
    /\ rIdx = 0
    /\ rLog = <<>>
    /\ rResult = Undefined
    /\ rPc = "start"

NextResolve == ResolveStart \/ ResolveProbe

SpecResolve == InitResolve /\ [][NextResolve]_vars


\* The /kontakt fixture crawled with the defaults: maxPages 8, the
\* hardcoded candidate paths
InitScenario ==
    /\ SmtpIdle
    /\ SendIdle
    /\ SchedIdle
    /\ ResolveIdle
    /\ RankIdle
    /\ ExtractIdle
    /\ PoolIdle
    /\ website = Input("", 0, "firma.de", "", "")
    /\ opts = [maxPages |-> <<DefaultMaxPages>>, topLinksToVisit |-> <<>>]
    /\ scenario = "kontakt"
    /\ candidatePaths = <<>>
    /\ maxPages = 0
    /\ topLinksToVisit = 0
    /\ base = EmptyString
    /\ baseHost = NoHost
    /\ queue = <<>>
    /\ enqueued = {}
    /\ visited = {}
    /\ foundEmails = <<>>
    /\ evidenceUrls = <<>>
    /\ scoredLinks = <<>>
    /\ siteContext = Undefined
    /\ url = EmptyString
    /\ pc = "start"
    /\ result = Undefined
    /\ fetchLog = <<>>
    /\ sleeps = 0

SpecScenario == InitScenario /\ [][Next]_vars

\* The directory fixture crawled with topLinksToVisit omitted, below the
\* clamp and above it
DirectoryPages == 2
InitDirectory ==
    /\ SmtpIdle
    /\ SendIdle
    /\ SchedIdle
    /\ ResolveIdle
    /\ RankIdle
    /\ ExtractIdle
    /\ PoolIdle
    /\ website = Input("", 0, "firma.de", "", "")
    /\ opts \in [maxPages : {<<n>> : n \in 1..DirectoryPages},
                 topLinksToVisit : {<<>>, <<0>>, <<1>>, <<4>>, <<20>>}]
    /\ scenario = "directory"
    /\ candidatePaths = ConfiguredPaths
    /\ maxPages = 0
    /\ topLinksToVisit = 0
    /\ base = EmptyString
    /\ baseHost = NoHost
    /\ queue = <<>>
    /\ enqueued = {}
    /\ visited = {}
    /\ foundEmails = <<>>
    /\ evidenceUrls = <<>>
    /\ scoredLinks = <<>>
    /\ siteContext = Undefined
    /\ url = EmptyString
    /\ pc = "start"
    /\ result = Undefined
    /\ fetchLog = <<>>
    /\ sleeps = 0

SpecDirectory == InitDirectory /\ [][Next]_vars

\* canonicalizeLeadWebsites called with up to MaxLeads leads; every await of
\* the resolver returns (each probe has an abort timer)
MaxLeads == 3
PoolWebsites ==
    {Input("", 0, "firma.de", "", ""), Input("https", 1, "applied.de", "/", ""),
     Input("", 0, "", "", "")}
InitPool ==
    /\ SmtpIdle
    /\ SendIdle
    /\ SchedIdle
    /\ ResolveIdle
    /\ CrawlIdle
    /\ RankIdle
    /\ ExtractIdle
    /\ \E n \in 0..MaxLeads : \E sites \in [1..n -> PoolWebsites] :
          leads = [k \in 1..n |-> Lead(k, sites[k])]
    /\ poolOpts \in [concurrency : {<<>>, <<0>>, <<2>>, <<30>>}]
    /\ excludeSet = {Hostname(0, "applied.de")}
    /\ concurrency = 0
    /\ poolOut = <<>>
    /\ idx = 0
    /\ resolved = 0
    /\ blocked = 0
    /\ aggregators = 0
    /\ failed = 0
    /\ workers = <<>>
    /\ poolPc = "call"
    /\ poolResult = <<>>
    /\ claimLog = <<>>
    /\ procLog = <<>>

NextPool == PoolStart \/ (\E w \in 1..25 : WorkerResume(w)) \/ PoolReturn
SpecPool == InitPool /\ [][NextPool]_vars /\ WF_vars(NextPool)

\* validateEmail on the addresses one check each tells apart, against a mail
\* server that may answer anything, stay silent, fail or close
SmtpCodes == {220, 250, 450, 550, 551, 552, 553, 554}
ValEmails ==
    {Addr("bob", "firma.de"), Addr("info", "firma.de"), Addr("info.berlin", "firma.de"),
     Addr("bob", "mailinator.com"), Addr("example", "gmail.com"), Addr("bob", "localhost")}
InitSmtp ==
    /\ ResolveIdle
    /\ CrawlIdle
    /\ RankIdle
    /\ ExtractIdle
    /\ PoolIdle
    /\ SendIdle
    /\ SchedIdle
    /\ valEmail \in ValEmails
    /\ valOpts \in [skipSmtp : BOOLEAN]
    /\ valPc = "call"
    /\ valResult = Undefined
    /\ smtpStep = 0
    /\ smtpSocket = "none"
    /\ smtpTimeout = FALSE
    /\ smtpIsCatchAll = FALSE
    /\ smtpResolved = Undefined
    /\ smtpLog = <<>>

NextSmtp ==
    \/ ValidateStart
    \/ MxReturn
    \/ \E code \in SmtpCodes : SmtpData(code)
    \/ SmtpTimedOut
    \/ SmtpError
    \/ SmtpClose
    \/ SmtpReturn
SpecSmtp == InitSmtp /\ [][NextSmtp]_vars

\* Calls of sendApplications one after the other, on arrays of the items a
\* check each tells apart, under every choice of the options, against a
\* mailer that may fail
MaxSendItems == 2
MaxSendCalls == 2
Bob == Text(FALSE, FALSE, "bob@firma.de")
Hi == Text(FALSE, FALSE, "hi")
Body == Text(FALSE, FALSE, "body")
SendItemKinds ==
    {SendItem(Bob, Hi, Body),
     SendItem(Text(TRUE, TRUE, "bob@firma.de"), Text(TRUE, FALSE, "hi"), Body),
     SendItem(Bob, Text(FALSE, TRUE, "hi"), Body),
     SendItem(Text(FALSE, FALSE, "bob.firma.de"), Hi, Body),
     SendItem(Bob, Hi, Text(TRUE, FALSE, ""))}
SendOptions ==
    [dryRun : {<<>>, <<TRUE>>, <<FALSE>>}, dedupe : {<<>>, <<FALSE>>},
     delayMs : {<<>>, <<0>>}, cvFilename : {<<>>, <<"cv.pdf">>}]
InitSend ==
    /\ ResolveIdle
    /\ CrawlIdle
    /\ RankIdle
    /\ ExtractIdle
    /\ PoolIdle
    /\ SmtpIdle
    /\ SchedIdle
    /\ sendItems = <<>>
    /\ sendOpts = NoOpts
    /\ sendDryRun = TRUE
    /\ sendDedupe = TRUE
    /\ sendDelayMs = 0
    /\ sentKeys = {}
    /\ sentFile = NoFile
    /\ sendResults = <<>>
    /\ sendI = 1
    /\ sendPc = "ready"
    /\ sendReturned = Undefined
    /\ sendCalls = 0
    /\ sendOkCount = <<>>

NextSend ==
    \/ /\ sendCalls < MaxSendCalls
       /\ \E o \in SendOptions : \E cvFound \in BOOLEAN : SendStart(o, cvFound)
    \/ /\ Len(sendItems) < MaxSendItems
       /\ \E item \in SendItemKinds : SendIteration(item)
    \/ SendEmailOk
    \/ SendEmailThrew
    \/ SendSleepDone
    \/ SendReturn
SpecSend == InitSend /\ [][NextSend]_vars

\* One schedule, created at hour 0 to run every hour
ScheduleId == "s1"
FreshId == "uuid"
InitialSchedules ==
    upsertSchedule(<<>>, ScheduleInput(<<ScheduleId>>, <<>>, <<1>>, <<>>, <<>>), 0, FreshId)
ToggleOn == ScheduleInput(<<ScheduleId>>, <<TRUE>>, <<>>, <<>>, <<>>)
ToggleOff == ScheduleInput(<<ScheduleId>>, <<FALSE>>, <<>>, <<>>, <<>>)
EditInterval == ScheduleInput(<<ScheduleId>>, <<>>, <<2>>, <<>>, <<>>)
FoundCounts == {0, 2}
MaxClock == 1
InitSchedule ==
    /\ ResolveIdle
    /\ CrawlIdle
    /\ RankIdle
    /\ ExtractIdle
    /\ PoolIdle
    /\ SmtpIdle
    /\ SendIdle
    /\ schedFile = InitialSchedules
    /\ clock = 0
    /\ storeOps = <<>>
    /\ opsDone = <<>>
    /\ schedCalls = 0
    /\ jobs = <<>>
    /\ jobsStarted = 0
    /\ jobSchedulerRunning = FALSE
    /\ sweepPc = "idle"
    /\ sweepDue = <<>>

\* markScheduleRun and the upserts that switch the schedule on and off, one
\* call after the other, at any hours
MaxRuns == 5
NextSchedule ==
    \/ clock < MaxClock /\ Tick
    \/ /\ storeOps = <<>>
       /\ schedCalls < MaxRuns
       /\ \/ \E input \in {ToggleOn, ToggleOff} : UpsertLoad(input, FreshId)
          \/ \E found \in FoundCounts : MarkLoad(ScheduleId, found)
    \/ StoreSave(1)
SpecSchedule == InitSchedule /\ [][NextSchedule]_vars

\* upsertSchedule, deleteSchedule and markScheduleRun called at any time,
\* interleaved at their awaits
MaxStoreOps == 2
NextStore ==
    \/ /\ schedCalls < MaxStoreOps
       /\ \/ \E input \in {ToggleOn, ToggleOff, EditInterval} : UpsertLoad(input, FreshId)
          \/ DeleteLoad(ScheduleId)
          \/ \E found \in FoundCounts : MarkLoad(ScheduleId, found)
    \/ \E k \in 1..MaxStoreOps : StoreSave(k)
SpecStore == InitSchedule /\ [][NextStore]_vars

\* The sweep every five minutes and the run-now endpoint, at any time, with
\* the executions of runScheduledJob they start
MaxJobs == 2
NextRunner ==
    \/ clock < MaxClock /\ Tick
    \/ SweepStart
    \/ SweepDue
    \/ jobsStarted < MaxJobs /\ SweepRun
    \/ SweepEnd
    \/ jobsStarted < MaxJobs /\ RunNow(ScheduleId)
    \/ \E k \in 1..MaxJobs : \E found \in FoundCounts : JobMark(k, found)
    \/ \E k \in 1..MaxJobs : StoreSave(k)
SpecRunner == InitSchedule /\ [][NextRunner]_vars

\* Every crawl step that can be taken is taken: each fetch returns, each
\* sleep timer fires, the event loop runs each continuation
SpecLive == Spec /\ WF_vars(Next)

\* rankEmails on its own, on any short list of addresses
MaxRankLen == 2
RankUsers == {<<"i", "n", "f", "o">>, uInfoCaps, uBob}
RankDomains == {dFirma, <<"mail", "firma", "de">>, dOther, dSentry, <<"wixsentry", "com">>}
RankEmails == {Email(u, d) : u \in RankUsers, d \in RankDomains}
RankHosts == {Hostname(0, "firma.de"), Hostname(0, "wixsentry.com")}

InitRank ==
    /\ SmtpIdle
    /\ SendIdle
    /\ SchedIdle
    /\ ResolveIdle
    /\ CrawlIdle
    /\ ExtractIdle
    /\ PoolIdle
    /\ rankIn \in UNION {[1..n -> RankEmails] : n \in 0..MaxRankLen}
    /\ rankHost \in RankHosts
    /\ rankOut = <<>>
    /\ rankPc = "call"

RankCall ==
    /\ rankPc = "call"
    /\ rankOut' = rankEmails(rankIn, rankHost)
    /\ rankPc' = "done"
    /\ UNCHANGED <<rankIn, rankHost, notRankVars>>

NextRank == RankCall

SpecRank == InitRank /\ [][NextRank]_vars

\* extractEmailsFromText on its own, on any short text: local parts with
\* digit prefixes of 2 to 5 digits, alone in the text or beside their clean
\* form
MaxTextLen == 2
u15Hello == <<"1", "5">> \o uHello
u150Hello == <<"1", "5", "0">> \o uHello
u0150Hello == <<"0", "1", "5", "0">> \o uHello
u00150Hello == <<"0", "0", "1", "5", "0">> \o uHello
TextUsers == {uHello, u15Hello, u150Hello, u0150Hello, u00150Hello, uBob}
TextOccs == {Occ(u, d, a) : u \in TextUsers, d \in {dFirma, dOther}, a \in {"@"}}
                \cup {Occ(uHello, dFirma, "{at}")}

InitExtract ==
    /\ SmtpIdle
    /\ SendIdle
    /\ SchedIdle
    /\ ResolveIdle
    /\ CrawlIdle
    /\ RankIdle
    /\ PoolIdle
    /\ exText \in UNION {[1..n -> TextOccs] : n \in 1..MaxTextLen}
    /\ exOut = <<>>
    /\ exPc = "call"

ExtractCall ==
    /\ exPc = "call"
    /\ exOut' = extractEmailsFromText(exText)
    /\ exPc' = "done"
    /\ UNCHANGED <<exText, notExtractVars>>

NextExtract == ExtractCall

SpecExtract == InitExtract /\ [][NextExtract]_vars


(***************************************************************************)
(* Properties                                                              *)
(***************************************************************************)
\* maxPages = N as the caller gave it
N == OrDefault(opts.maxPages, DefaultMaxPages)
LogUrls == [i \in 1..Len(fetchLog) |-> fetchLog[i].url]
KontaktUrl == [Href(base) EXCEPT !.path = "/kontakt"]
HelloFirma == Email(uHello, dFirma)

\* C1 (frontier bound): whatever the site does, a crawl with maxPages = N
\* makes at most N fetchHtml calls and never fetches a URL twice.
FrontierBound ==
    /\ Len(fetchLog) <= N
    /\ NoDup(LogUrls)
\* A crawl cut short by the budget: N >= 2 fetches made, failures and pages
\* among them, URLs still waiting.
FrontierBoundWitness ==
    /\ pc = "done"
    /\ N >= 2
    /\ Len(fetchLog) = N
    /\ Len(queue) > 0
    /\ \E i, j \in 1..Len(fetchLog) :
          fetchLog[i].outcome = "failed" /\ fetchLog[j].outcome = "page"

\* C2 (the /kontakt scenario): the crawl with maxPages = 8 and the hardcoded
\* candidate paths fetches /kontakt, returns hello@firma.de and lists the
\* /kontakt URL as evidence.
ScenarioFindsKontakt ==
    pc = "done" =>
        /\ KontaktUrl \in visited
        /\ HelloFirma \in Range(result.emails)
        /\ KontaktUrl \in Range(result.evidenceUrls)

\* C3 (termination): if every fetch returns, the crawl reaches its return;
\* it fetches only while the frontier is non-empty and fewer than N URLs are
\* visited, returns only when that fails, and sets its result once.
IsCrawlResult(r) == DOMAIN r = {"website", "emails", "evidenceUrls", "siteContext"}
CrawlTerminates ==
    /\ <>(pc = "done")
    /\ [][(pc = "loop" /\ pc' = "fetching") =>
            (queue # <<>> /\ Cardinality(visited) < N)]_vars
    /\ [][(pc # "done" /\ pc' = "done") =>
            /\ pc = "loop"
            /\ (queue = <<>> \/ Cardinality(visited) >= N)
            /\ result = Undefined
            /\ IsCrawlResult(result')]_vars
    /\ [][result # Undefined => result' = result]_vars
\* Both ways out of the loop with work done: here the frontier ran empty
\* below the budget.
CrawlTerminatesWitness ==
    /\ pc = "done"
    /\ queue = <<>>
    /\ Cardinality(visited) < N
    /\ Len(fetchLog) >= 2
    /\ IsCrawlResult(result)

\* C4 (fetch failure): a failed fetch leaves the URL visited, changes none
\* of emails, evidence, scores, context or frontier, goes on to the delay
\* and then to the head of the frontier; nothing is thrown; a crawl whose
\* fetches all fail returns emails = [].
FetchFailureIsLocal ==
    /\ [][(pc = "fetching" /\ fetchLog'[Len(fetchLog')].outcome = "failed") =>
            /\ pc' = "sleeping"
            /\ url \in visited'
            /\ UNCHANGED <<foundEmails, evidenceUrls, scoredLinks, siteContext, queue,
                           enqueued, visited>>]_vars
    /\ [][(pc = "loop" /\ pc' = "fetching") => url' = Head(queue)]_vars
    /\ [](pc # "threw")
    /\ []((pc = "done" /\ \A i \in 1..Len(fetchLog) : fetchLog[i].outcome = "failed")
            => result.emails = <<>>)
FetchFailureWitness ==
    /\ pc = "done"
    /\ Len(fetchLog) >= 2
    /\ \A i \in 1..Len(fetchLog) : fetchLog[i].outcome = "failed"
    /\ Cardinality(visited) = Len(fetchLog)
    /\ result.emails = <<>>

\* C5 (blocklist on the result): every address of CrawlResult.emails passes
\* the structural validation and the blocklist and placeholder checks.
PassesFilters(e) ==
    /\ isValidUser(e.user)
    /\ isValidDomain(e.domain)
    /\ ~isBlockedDomain(e.domain)
    /\ ~isPlaceholderOrTest(e.user, e.domain)
    /\ ~looksLikeFile(e)
ResultPassesFilters ==
    pc = "done" => \A e \in Range(result.emails) : PassesFilters(e)

\* C6 (ranking monotonicity): rankEmails puts every address on the base
\* host before every address that is neither on it nor on a subdomain.
OnHost(e, h) == LowerSeq(e.domain) = HostLabels(h)
OnSubdomain(e, h) ==
    IsSuffix(HostLabels(h), LowerSeq(e.domain)) /\ Len(e.domain) > Len(HostLabels(h))
RankingMonotone ==
    rankPc = "done" =>
        \A i, j \in 1..Len(rankOut) :
            (/\ OnHost(rankOut[i], rankHost)
             /\ ~OnHost(rankOut[j], rankHost)
             /\ ~OnSubdomain(rankOut[j], rankHost)) => i < j
\* The hardest case: the base host itself carries both penalties, and the
\* foreign address the largest prefix bonus, and comes first in the input.
RankingWitness ==
    /\ rankPc = "done"
    /\ rankHost = Hostname(0, "wixsentry.com")
    /\ rankIn = <<Email(<<"i", "n", "f", "o">>, dOther), Email(uBob, <<"wixsentry", "com">>)>>
    /\ rankOut = <<Email(uBob, <<"wixsentry", "com">>), Email(<<"i", "n", "f", "o">>, dOther)>>

\* C7 (ranking keeps the set): CrawlResult.emails has no duplicates and
\* holds exactly the addresses found on the pages fetched.
FoundOnPages == UNION {Range(fetchLog[i].emails) : i \in 1..Len(fetchLog)}
ResultIsFoundSet ==
    /\ Range(foundEmails) = FoundOnPages
    /\ pc = "done" =>
        /\ NoDup(result.emails)
        /\ Range(result.emails) = FoundOnPages
\* Ranking had work to do: four addresses, returned in another order
ResultIsFoundSetWitness ==
    /\ pc = "done"
    /\ Len(result.emails) >= 4
    /\ result.emails # foundEmails

\* C8 (probe order): the probes go through https://host, https://www.host,
\* http://host, http://www.host in that order (a www variant is left out
\* when host begins with "www." already), at most 4 of them; every probe
\* before the last did not qualify; the first that does ends the probing
\* and its final URL's origin is returned.
FixedOrder(host) ==
    LET bare(sch) == Url(sch, host.www, host.name, "")
        www(sch) == Url(sch, 1, host.name, "")
    IN  IF host.www > 0 THEN <<bare("https"), bare("http")>>
        ELSE <<bare("https"), www("https"), bare("http"), www("http")>>
Qualifies(entry) ==
    /\ entry.r.ok
    /\ entry.r.finalUrl.scheme \in {"http", "https"}
    /\ entry.r.finalUrl.name # ""
ProbedOrigins == [i \in 1..Len(rLog) |-> rLog[i].origin]
ProbeOrder ==
    /\ Len(rLog) <= 4
    /\ rHost # NoHost => IsPrefix(ProbedOrigins, FixedOrder(rHost))
    /\ rHost = NoHost => rLog = <<>>
    /\ \A i \in 1..(Len(rLog) - 1) : ~Qualifies(rLog[i])
    /\ (rLog # <<>> /\ Qualifies(rLog[Len(rLog)])) =>
          /\ rPc = "done"
          /\ rResult = [rLog[Len(rLog)].r.finalUrl EXCEPT !.path = ""]
    /\ (rPc = "probing" /\ rLog # <<>>) => ~Qualifies(rLog[Len(rLog)])
\* "example.com" when only https://www.example.com answers: two probes
ProbeOrderWitness ==
    /\ rPc = "done"
    /\ rInput = Input("", 0, "example.com", "", "")
    /\ Len(rLog) = 2
    /\ rLog[1].origin = Url("https", 0, "example.com", "") /\ ~rLog[1].r.ok
    /\ rLog[2].origin = Url("https", 1, "example.com", "") /\ rLog[2].r.ok
    /\ rLog[2].r.finalUrl = Url("https", 1, "example.com", "/")
    /\ rResult = Url("https", 1, "example.com", "")

\* C9 (no throw, fallback): resolveCanonicalBaseUrl throws nothing; when no
\* probe qualifies it returns https://host; it returns null only when the
\* input holds no hostname.
ResolveNeverThrows ==
    /\ rPc # "threw"
    /\ (rPc = "done" /\ rHost # NoHost /\ \A i \in 1..Len(rLog) : ~Qualifies(rLog[i]))
          => rResult = Url("https", rHost.www, rHost.name, "")
    /\ (rPc = "done" /\ rResult = Null) => (rInput.name = "" /\ rLog = <<>>)
    /\ rPc = "done" => rResult # Undefined
\* All four probes fail, by throw and by unusable final URL
ResolveFallbackWitness ==
    /\ rPc = "done"
    /\ Len(rLog) = 4
    /\ \E i \in 1..4 : ~rLog[i].r.ok
    /\ \E i \in 1..4 : rLog[i].r.ok /\ rLog[i].r.finalUrl.scheme = "ftp"
    /\ rResult = Url("https", 0, "example.com", "")

\* C10 (evidence): evidenceUrls lists, in order, the resolved URL of each
\* page that was fetched and gave at least one address, and nothing else;
\* the result has addresses exactly when it has evidence.
RECURSIVE EvidenceOf(_)
EvidenceOf(log) ==
    IF log = <<>> THEN <<>>
    ELSE LET e == log[Len(log)]
             front == EvidenceOf(SubSeq(log, 1, Len(log) - 1))
         IN  IF e.outcome = "page" /\ e.emails # <<>> THEN Append(front, e.finalUrl)
             ELSE front
EvidenceIffEmails ==
    /\ evidenceUrls = EvidenceOf(fetchLog)
    /\ pc = "done" =>
        /\ result.evidenceUrls = evidenceUrls
        /\ (result.emails # <<>>) <=> (result.evidenceUrls # <<>>)
\* Pages of all three kinds: failed, fetched without an address, fetched
\* with one; only the last is listed.
EvidenceWitness ==
    /\ pc = "done"
    /\ Len(evidenceUrls) = 1
    /\ \E i \in 1..Len(fetchLog) : fetchLog[i].outcome = "failed"
    /\ \E i \in 1..Len(fetchLog) : fetchLog[i].outcome = "page" /\ fetchLog[i].emails = <<>>
    /\ \E i \in 1..Len(fetchLog) : fetchLog[i].outcome = "page" /\ fetchLog[i].emails # <<>>

\* C11 (site context): siteContext is the context of the first page fetched
\* successfully, whatever came later; a later page never changes it; the
\* result's siteContext is undefined exactly when no page was fetched
\* successfully.
PagesFetched == SelectSeq(fetchLog, LAMBDA e : e.outcome = "page")
SiteContextFromFirstPage ==
    /\ siteContext = IF PagesFetched = <<>> THEN Undefined ELSE PagesFetched[1].ctx
    /\ pc = "done" =>
        /\ result.siteContext = siteContext
        /\ (result.siteContext = Undefined) <=> (PagesFetched = <<>>)
\* The homepage fetch failed, two different pages followed: the context is
\* the first page's, not the homepage's and not the latest.
SiteContextWitness ==
    /\ pc = "done"
    /\ Len(fetchLog) >= 3
    /\ fetchLog[1].outcome = "failed"
    /\ Len(PagesFetched) >= 2
    /\ PagesFetched[1].ctx # PagesFetched[2].ctx
    /\ result.siteContext = PagesFetched[1].ctx

\* C12 (phone-tail repair): a local part with a prefix of 3 or 4 digits is
\* left as it is when its clean form stands nowhere else in the text; the
\* address extracted from it keeps the digits.
CleanFormElsewhere(text, i) ==
    LET m == text[i]
        clean == SubSeq(m.user, DigitRun(m.user) + 1, Len(m.user))
    IN  \E j \in 1..Len(text) :
            j # i /\ TextIncludes(<<text[j]>>, LowerSeq(clean), LowerSeq(m.domain))
PhoneTailNeedsEvidence ==
    exPc = "done" =>
        \A i \in 1..Len(exText) :
            LET m == normalizeEmailText(exText)[i]
            IN  (/\ m.at = "@"
                 /\ DigitRun(m.user) \in {3, 4}
                 /\ ~CleanFormElsewhere(exText, i))
                => /\ decontaminatePhoneSuffixUser(m.user, m.domain,
                                                   normalizeEmailText(exText)) = LowerSeq(m.user)
                   /\ Email(LowerSeq(m.user), LowerSeq(m.domain)) \in Range(exOut)

\* C13 (frontier uniqueness): the queue never holds a URL twice, and a URL
\* that was enqueued once, waiting or visited, is never put in the queue
\* again, by the seeds or by an injection.
FrontierUnique ==
    /\ [](NoDup(queue) /\ Range(queue) \subseteq enqueued)
    /\ [][/\ enqueued \subseteq enqueued'
          /\ \A u \in Range(queue') \ Range(queue) : u \notin enqueued /\ u \in enqueued'
          /\ Len(queue') - Len(SelectSeq(queue', LAMBDA u : u \in Range(queue)))
                = Cardinality(enqueued' \ enqueued)]_vars
\* A page linked to /kontakt, which was seeded and has been visited, and to
\* /team, which was new: only /team was injected.
FrontierUniqueWitness ==
    /\ MapHas(scoredLinks, KontaktUrl)
    /\ KontaktUrl \in visited
    /\ KontaktUrl \notin Range(queue)
    /\ [KontaktUrl EXCEPT !.path = "/team"] \in Range(queue)

\* C14 (frontier ordering): the first URL fetched is the homepage; the
\* seeds follow it in the queue in list order; a page's injected links go
\* in front of everything waiting, whose order they leave alone; a fetch
\* takes the head of the queue and nothing else reorders it.  So an injected
\* link is fetched before every seed that waited when it was injected.
SeedsInOrder == SelectSeq(buildCandidatePaths(base, candidatePaths), LAMBDA u : u # base)
FrontierOrder ==
    /\ [](fetchLog # <<>> => fetchLog[1].url = base)
    /\ []((pc = "loop" /\ fetchLog = <<>>) => queue = <<base>> \o SeedsInOrder)
    /\ [][pc = "fetching" =>
            \E k \in 0..Len(queue') :
                /\ SubSeq(queue', k + 1, Len(queue')) = queue
                /\ \A i \in 1..k : queue'[i] \notin Range(queue)]_vars
    /\ [][(pc = "loop" /\ pc' = "fetching") => (url' = Head(queue) /\ queue' = Tail(queue))]_vars
    /\ [][pc' \in {"loop", "done"} /\ pc # "start" => queue' = queue]_vars
\* /team was injected while the seed /kontakt waited, and has been fetched;
\* /kontakt still waits.
FrontierOrderWitness ==
    /\ Len(fetchLog) >= 2
    /\ fetchLog[1].url = base
    /\ fetchLog[Len(fetchLog)].url = [KontaktUrl EXCEPT !.path = "/team"]
    /\ KontaktUrl \in Range(queue)
    /\ KontaktUrl \in Range(SeedsInOrder)

\* C15 (dequeue means fetch): visited stays within enqueued and apart from
\* the queue; the loop never meets a visited URL at the head of the queue;
\* each URL taken from the queue is added to visited and fetched in that
\* step; a URL leaves the queue in no other way.
DequeueMeansFetch ==
    /\ [](/\ visited \subseteq enqueued
          /\ Range(queue) \cap visited = {}
          /\ visited = Range(LogUrls)
          /\ Cardinality(visited) = Len(fetchLog))
    /\ [](pc = "loop" => SkipVisited(queue, visited, maxPages) = queue)
    /\ [][Range(queue) \ Range(queue') # {} =>
            /\ pc = "loop" /\ pc' = "fetching"
            /\ Range(queue) \ Range(queue') = {Head(queue)}
            /\ visited' = visited \cup {Head(queue)}
            /\ Len(fetchLog') = Len(fetchLog) + 1
            /\ fetchLog'[Len(fetchLog')].url = Head(queue)]_vars
\* Three URLs fetched, one of them linked to again by a page fetched later,
\* more still waiting.
DequeueMeansFetchWitness ==
    /\ pc = "done"
    /\ Cardinality(visited) = 3
    /\ queue # <<>>
    /\ \E i \in 1..Len(scoredLinks) : scoredLinks[i].u \in visited

\* C16 (score map): scoredLinks holds only scores above zero, one per URL;
\* a step never removes a URL or lowers its score; the score stored for a
\* URL is the largest score above zero that any link to it had on any page
\* fetched so far.
LinkScoresSeen(u) ==
    {sc \in UNION {
        LET e == fetchLog[i]
            here == IF e.finalUrl # EmptyString THEN e.finalUrl ELSE e.url
        IN  {scoreLink(u, e.anchors[k].text, e.anchors[k].nav) :
                k \in {k \in 1..Len(e.anchors) :
                         ResolveAnchor(e.anchors[k], here, baseHost) = u}}
        : i \in 1..Len(fetchLog)} : sc > 0}
LinksSeen ==
    UNION {LET e == fetchLog[i]
               here == IF e.finalUrl # EmptyString THEN e.finalUrl ELSE e.url
           IN  {ResolveAnchor(e.anchors[k], here, baseHost) : k \in 1..Len(e.anchors)}
           : i \in 1..Len(fetchLog)} \ {Undefined}
ScoreMapMonotone ==
    /\ [](/\ \A i \in 1..Len(scoredLinks) : scoredLinks[i].s > 0
          /\ NoDup([i \in 1..Len(scoredLinks) |-> scoredLinks[i].u])
          /\ baseHost # NoHost =>
                \A u \in LinksSeen \cup {scoredLinks[i].u : i \in 1..Len(scoredLinks)} :
                    IF LinkScoresSeen(u) = {} THEN ~MapHas(scoredLinks, u)
                    ELSE /\ MapHas(scoredLinks, u)
                         /\ MapGet(scoredLinks, u) \in LinkScoresSeen(u)
                         /\ \A sc \in LinkScoresSeen(u) : sc <= MapGet(scoredLinks, u))
    /\ [][\A i \in 1..Len(scoredLinks) :
            /\ MapHas(scoredLinks', scoredLinks[i].u)
            /\ MapGet(scoredLinks', scoredLinks[i].u) >= scoredLinks[i].s]_vars
\* /team was linked with two scores on two pages, the lower one last: the
\* higher one is stored.
ScoreMapWitness ==
    /\ Cardinality(LinkScoresSeen([KontaktUrl EXCEPT !.path = "/team"])) = 2
    /\ fetchLog[Len(fetchLog)].anchors = PageLinks.anchors
    /\ \E i \in 1..Len(scoredLinks) :
          /\ scoredLinks[i].u = [KontaktUrl EXCEPT !.path = "/team"]
          /\ scoredLinks[i].s = 18

\* C17 (frontier stays on the base host): every URL that was ever enqueued,
\* and so every URL fetched, is an absolute http(s) URL on the hostname of
\* the crawl's base.
OnBaseHost(u) ==
    /\ Parses(u)
    /\ u.scheme \in {"http", "https"}
    /\ Parses(base)
    /\ HostnameOf(u) = HostnameOf(base)
FrontierOnBaseHost ==
    /\ \A u \in enqueued : OnBaseHost(u)
    /\ \A i \in 1..Len(fetchLog) : OnBaseHost(fetchLog[i].url)

\* C18 (re-prioritization): the step that processes a fetched page, with
\* or without addresses found so far, injects the eligible links (scored
\* above zero, not visited, not enqueued) up to clamp(topLinksToVisit, 3,
\* 15) of them; every link it injects was neither visited nor enqueued;
\* no eligible link left out has a higher score than one injected.
Clamp(x, lo, hi) == Max2(lo, Min2(x, hi))
TopLimit == Clamp(OrDefault(opts.topLinksToVisit, 8), 3, 15)
Injected == enqueued' \ enqueued
EligibleBefore ==
    {scoredLinks'[i].u : i \in 1..Len(scoredLinks')} \ (visited \cup enqueued)
InjectsTheBest ==
    [][(pc = "fetching" /\ fetchLog'[Len(fetchLog')].outcome = "page") =>
        /\ Range(queue') \ Range(queue) = Injected
        /\ Injected \subseteq EligibleBefore
        /\ Cardinality(Injected) = Min2(TopLimit, Cardinality(EligibleBefore))
        /\ \A u \in Injected : \A v \in EligibleBefore \ Injected :
              MapGet(scoredLinks', v) <= MapGet(scoredLinks', u)]_vars
\* topLinksToVisit = 1 is clamped to 3: with an address already found, the
\* directory page's 18 eligible links give 3 injected, /impressum and
\* /team among them, 15 left out.
InjectsTheBestWitness ==
    /\ pc = "sleeping"
    /\ opts.topLinksToVisit = <<1>>
    /\ Len(fetchLog) = 2
    /\ fetchLog[1].emails # <<>>
    /\ fetchLog[2].anchors = PageDirectory.anchors
    /\ Cardinality(enqueued) = 2 + 3
    /\ Len(scoredLinks) = 18
    /\ {[KontaktUrl EXCEPT !.path = "/impressum"], [KontaktUrl EXCEPT !.path = "/team"]}
          \subseteq Range(queue)

\* C19 (politeness and sequencing): at most one page fetch is in flight,
\* and only while the crawl waits for it; every page returned has been
\* fully processed (addresses, context, scores, injection) before the
\* crawl is at the loop head again; exactly one delay has elapsed per
\* returned fetch, failed or not, before the next URL is dequeued.
InFlight == {i \in 1..Len(fetchLog) : fetchLog[i].outcome = "pending"}
Processed(e) ==
    /\ Range(e.emails) \subseteq Range(foundEmails)
    /\ siteContext # Undefined
    /\ (e.emails # <<>>) =>
          (IF e.finalUrl # EmptyString THEN e.finalUrl ELSE e.url) \in Range(evidenceUrls)
    /\ baseHost # NoHost =>
          \A k \in 1..Len(e.anchors) :
             LET here == IF e.finalUrl # EmptyString THEN e.finalUrl ELSE e.url
                 u == ResolveAnchor(e.anchors[k], here, baseHost)
             IN  (u # Undefined /\ scoreLink(u, e.anchors[k].text, e.anchors[k].nav) > 0) =>
                    /\ MapHas(scoredLinks, u)
                    /\ Len(scoredLinks) <= topLinksToVisit => u \in enqueued
OneFetchOneDelay ==
    /\ [](/\ InFlight = IF pc = "fetching" THEN {Len(fetchLog)} ELSE {}
          /\ \A i \in 1..Len(fetchLog) :
                fetchLog[i].outcome = "page" => Processed(fetchLog[i])
          /\ sleeps = Len(fetchLog) - (IF pc \in {"fetching", "sleeping"} THEN 1 ELSE 0))
    /\ [][Len(fetchLog') > Len(fetchLog) =>
            /\ Len(fetchLog') = Len(fetchLog) + 1
            /\ pc = "loop"
            /\ InFlight = {}
            /\ sleeps = Len(fetchLog)]_vars
\* The third fetch is in flight after a failed and a successful one, two
\* delays elapsed.
OneFetchOneDelayWitness ==
    /\ pc = "fetching"
    /\ Len(fetchLog) = 3
    /\ fetchLog[1].outcome = "failed"
    /\ fetchLog[2].outcome = "page"
    /\ fetchLog[2].emails # <<>>
    /\ sleeps = 2

\* C20 (worker pool): under every interleaving of the workers, no index is
\* claimed twice and each claimed index is processed once, by the worker
\* that claimed it; at most clamp(concurrency, 1, 25) (10 when omitted)
\* resolver calls are in flight; the call returns, with every worker done
\* and every index 0..leads.length-1 claimed and processed; the leads
\* returned are the accepted ones in input order.
PoolInFlight == {w \in 1..Len(workers) : workers[w].pc = "awaiting"}
AcceptedInOrder ==
    SelectSeq([k \in 1..Len(leads) |-> [leads[k] EXCEPT !.website = procLog[k][1].website]],
              LAMBDA l : l.website # EmptyString)
PoolClaimsOnce ==
    /\ [](/\ \A k \in 1..Len(claimLog) :
                /\ Len(claimLog[k]) <= 1
                /\ Len(procLog[k]) <= Len(claimLog[k])
                /\ \A j \in 1..Len(procLog[k]) : procLog[k][j].w = claimLog[k][j]
                /\ (claimLog[k] # <<>> /\ procLog[k] = <<>>) <=>
                      \E w \in PoolInFlight : workers[w].i = k - 1
          /\ \A w \in PoolInFlight : claimLog[workers[w].i + 1] = <<w>>
          /\ Cardinality(PoolInFlight) <= Clamp(OrDefault(poolOpts.concurrency, 10), 1, 25)
          /\ poolPc = "done" =>
                /\ PoolInFlight = {}
                /\ \A w \in 1..Len(workers) : workers[w].pc = "done"
                /\ Len(procLog) = Len(leads)
                /\ \A k \in 1..Len(leads) : Len(procLog[k]) = 1
                /\ poolResult = AcceptedInOrder)
    /\ <>(poolPc = "done")
\* Three leads on two workers: worker 2 finished the second lead first and
\* took the third, worker 1 did the first only; the second lead was
\* rejected, and the two accepted are returned in input order.
PoolClaimsOnceWitness ==
    /\ poolPc = "done"
    /\ Len(leads) = 3
    /\ concurrency = 2
    /\ claimLog = <<(<<1>>), (<<2>>), (<<2>>)>>
    /\ procLog[2][1].website = EmptyString
    /\ Len(poolResult) = 2
    /\ poolResult[1].id = 1
    /\ poolResult[2].id = 3

\* C21 (determinism): what a step of the crawl does depends on the network
\* only through the response: two fetch outcomes that agree on success or
\* failure and, on success, on the HTML and the final URL, lead from the
\* same state to the same state.  The steps that take nothing from the
\* network have one successor: the URL dequeued is the first unvisited one
\* of the queue, and the result is computed from the state.  So two crawls
\* of one input that get the same responses fetch the same URLs in the same
\* order and return the same emails and evidenceUrls.
SameResponse(t1, t2) ==
    /\ TransportFailed(t1) = TransportFailed(t2)
    /\ ~TransportFailed(t1) => (t1.body = t2.body /\ t1.url = t2.url)
FetchWith(t) == FetchOkWith(t) \/ FetchFailWith(t)
RcptReplies == {smtpLog[k].code : k \in {k \in 1..Len(smtpLog) :
                                          smtpLog[k].ev = "data" /\ smtpLog[k].step = 3}}
SmtpEvents == {smtpLog[k].ev : k \in 1..Len(smtpLog)}
SmtpTriState ==
    /\ smtpResolved # Undefined =>
         /\ smtpResolved.valid \in {"true", "false", "unknown"}
         /\ smtpResolved.valid = "false" <=> RcptReplies \cap {550, 551, 552, 553} # {}
         /\ smtpResolved.valid = "true" => RcptReplies = {250}
         /\ smtpResolved.valid = "unknown" <=>
               \/ SmtpEvents \cap {"timeout", "error"} # {}
               \/ RcptReplies \ {250, 550, 551, 552, 553} # {}
    /\ (valPc = "done" /\ valResult.reason = "smtp") => smtpResolved.valid = "false"
    /\ (valPc = "done" /\ smtpResolved # Undefined /\ smtpResolved.valid = "unknown") =>
         /\ valResult.reason # "smtp"
         /\ (~valResult.valid \/ valResult.risk = "high") => isPlaceholderEmail(valEmail)
\* The server answered the RCPT TO with 450: unknown, and the address is
\* returned valid with low risk
SmtpTriStateWitness ==
    /\ valPc = "done"
    /\ RcptReplies = {450}
    /\ smtpResolved = SmtpValue("unknown", FALSE)
    /\ valResult.valid
    /\ valResult.risk = "low"
    /\ valResult.smtpValid = "unknown"

\* C25 (checkSmtp completes): while the promise of checkSmtp is pending,
\* the timer that resolves it at the latest is pending too, so that every
\* behaviour of the server ends in a result.
SmtpAlwaysCompletes ==
    (valPc = "smtp" /\ smtpResolved = Undefined) => smtpTimeout

\* C23 (priority within one injection): of two links injected after the
\* same page, the one with the strictly higher merged score stands earlier
\* in the queue, so it is fetched first and the budget runs out on the
\* lowest-scoring ones.
QueuePos(q, u) == CHOOSE i \in 1..Len(q) : q[i] = u
InjectedBestFirst ==
    [][(pc = "fetching" /\ fetchLog'[Len(fetchLog')].outcome = "page") =>
        \A u, v \in Injected :
            MapGet(scoredLinks', u) > MapGet(scoredLinks', v) =>
                QueuePos(queue', u) < QueuePos(queue', v)]_vars

\* C24 (the root is fetched once): at most one fetch of a crawl goes to the
\* root of the site, written as the bare origin or as origin + "/".
IsSiteRoot(u) == Parses(u) /\ OriginOf(u) = OriginOf(base) /\ u.path \in {"", "/"}
RootFetchedOnce ==
    Cardinality({i \in 1..Len(fetchLog) : IsSiteRoot(fetchLog[i].url)}) <= 1


(***************************************************************************)
(* Sending: deduplication and dry runs                                     *)
(***************************************************************************)
\* The pair a send is deduplicated on, read off the item as written
PairOf(item) ==
    <<[pad |-> FALSE, upper |-> FALSE, s |-> item.to.s],
      [pad |-> FALSE, upper |-> item.subject.upper, s |-> item.subject.s]>>
SentPairs == {k \in DOMAIN sendOkCount : sendOkCount[k] > 0}
LastResult(rs) == rs[Len(rs)]

\* C26: over calls one after the other, inside the calls with dedupe enabled
\* sendEmail succeeds at most once per (lower-cased recipient, trimmed
\* subject), in one batch and across batches; the file holds the keys of
\* exactly the sends that succeeded; an item whose pair was sent already is
\* reported as dedupeSkipped without a send; a send that threw records nothing
SendDedupes ==
    /\ [](/\ \A k \in DOMAIN sendOkCount : sendOkCount[k] <= 1
          /\ loadSentKeys(sentFile) = SentPairs)
    /\ [][/\ (sendPc = "loop" /\ Len(sendItems') > Len(sendItems) /\ sendDedupe
              /\ PairOf(sendItems'[sendI]) \in SentPairs
              /\ sendItems'[sendI].body.s # "")
             => (/\ sendPc' = "loop"
                 /\ Len(sendResults') = Len(sendResults) + 1
                 /\ LastResult(sendResults').dedupeSkipped
                 /\ LastResult(sendResults').ok)
          /\ (sendPc = "sending" /\ sendDedupe /\ Len(sendResults') > Len(sendResults)
              /\ ~LastResult(sendResults').ok)
             => (/\ sentKeys' = sentKeys
                 /\ sentFile' = sentFile
                 /\ PairOf(sendItems[sendI]) \notin loadSentKeys(sentFile)
                 /\ PairOf(sendItems[sendI]) \notin sentKeys)]_vars

\* A second call that skipped an item written in another case than the one
\* sent by the first call, after a send of another item threw
SendDedupesWitness ==
    /\ sendCalls = 2
    /\ sendPc = "done"
    /\ sendDedupe /\ ~sendDryRun
    /\ sentFile.exists
    /\ \E i \in DOMAIN sendResults :
          /\ sendResults[i].dedupeSkipped
          /\ sendItems[i].to.upper
          /\ sendItems[i].to.pad
    /\ \E i \in DOMAIN sendResults :
          /\ ~sendResults[i].ok
          /\ sendResults[i].error = "error"
          /\ PairOf(sendItems[i]) \notin SentPairs

\* The calls asked to run dry: dryRun true or omitted
DryRunRequested(o) == o.dryRun \in {<<>>, <<TRUE>>}

\* C27: a call with dryRun true or omitted never awaits sendEmail and leaves
\* the sent-records file, hence the persisted keys, as they were
DryRunSafe ==
    [][DryRunRequested(sendOpts')
       => (/\ sendPc' # "sending"
           /\ sentFile' = sentFile
           /\ loadSentKeys(sentFile') = loadSentKeys(sentFile)
           /\ sendOkCount' = sendOkCount)]_vars

\* A dry run, with dryRun omitted, over an item that a real call would have
\* sent, after an earlier call that did send and record
DryRunSafeWitness ==
    /\ sendCalls = 2
    /\ sendPc = "done"
    /\ sendOpts.dryRun = <<>>
    /\ sentFile.exists
    /\ \E i \in DOMAIN sendResults :
          /\ sendResults[i].ok
          /\ sendResults[i].dryRun
          /\ ~sendResults[i].dedupeSkipped
          /\ PairOf(sendItems[i]) \notin SentPairs


(***************************************************************************)
(* Job schedules: auto-disable, concurrent runs, lost updates              *)
(***************************************************************************)
RECURSIVE EmptyStreak(_)
\* The consecutive runs with found = 0 that end a history of completed
\* operations: a run with found > 0 or a re-enabling upsert starts anew
EmptyStreak(log) ==
    IF log = <<>> THEN 0
    ELSE LET e == log[Len(log)]
             before == SubSeq(log, 1, Len(log) - 1)
         IN IF e.kind = "mark"
            THEN (IF e.found = 0 THEN 1 + EmptyStreak(before) ELSE 0)
            ELSE IF e.kind = "upsert" /\ e.reenabled THEN 0
            ELSE EmptyStreak(before)
Completes(kind) ==
    /\ Len(opsDone') = Len(opsDone) + 1
    /\ opsDone'[Len(opsDone')].kind = kind
LastDone == opsDone'[Len(opsDone')]

\* C28: over markScheduleRun calls and upserts one after the other, the
\* counter is the number of consecutive runs with found = 0 (0 after a run
\* with found > 0 and after a re-enabling upsert, which also clears the
\* reason); a run disables the schedule, with reason "empty_results", exactly
\* when it is the third consecutive one with found = 0, or a later one; an
\* enabled schedule has a counter below 3; each run sets nextRunAt to the
\* hour of the run plus intervalHours
AutoDisable ==
    /\ [](storeOps = <<>> =>
            /\ schedFile[1].consecutiveEmptyRuns = EmptyStreak(opsDone)
            /\ schedFile[1].enabled => schedFile[1].consecutiveEmptyRuns < 3)
    /\ [][/\ Completes("mark") =>
               /\ LastDone.autoDisabled <=> (LastDone.found = 0 /\ EmptyStreak(opsDone') >= 3)
               /\ LastDone.autoDisabled =>
                    (~schedFile'[1].enabled /\ schedFile'[1].disabledReason = "empty_results")
               /\ ~LastDone.autoDisabled =>
                    (/\ schedFile'[1].enabled = schedFile[1].enabled
                     /\ schedFile'[1].disabledReason = schedFile[1].disabledReason)
               /\ LastDone.found > 0 => schedFile'[1].consecutiveEmptyRuns = 0
               /\ schedFile'[1].nextRunAt = <<LastDone.now + schedFile'[1].intervalHours>>
               /\ schedFile'[1].lastRunAt = <<LastDone.now>>
          /\ (Completes("upsert") /\ LastDone.reenabled) =>
               /\ schedFile'[1].enabled
               /\ schedFile'[1].consecutiveEmptyRuns = 0
               /\ schedFile'[1].disabledReason = ""]_vars

\* Three empty runs disabled the schedule, it was switched on again, and the
\* next empty run counts as the first
AutoDisableWitness ==
    /\ storeOps = <<>>
    /\ Len(opsDone) = 5
    /\ opsDone[3].kind = "mark" /\ opsDone[3].autoDisabled
    /\ opsDone[4].kind = "upsert" /\ opsDone[4].reenabled
    /\ opsDone[5].kind = "mark" /\ opsDone[5].found = 0 /\ opsDone[5].now > opsDone[3].now
    /\ schedFile[1].enabled
    /\ schedFile[1].consecutiveEmptyRuns = 1

\* C29: at any time at most one runScheduledJob is in progress per schedule id
OneRunPerSchedule ==
    \A i, j \in DOMAIN jobs : jobs[i].id = jobs[j].id => i = j

ApplyOp(all, d) ==
    IF d.kind = "upsert" THEN upsertSchedule(all, d.input, d.now, d.uuid)
    ELSE IF d.kind = "delete" THEN deleteSchedule(all, d.id)
    ELSE markScheduleRun(all, d.id, d.found, d.now).all
RECURSIVE ApplyAll(_, _)
ApplyAll(all, ds) == IF ds = <<>> THEN all ELSE ApplyAll(ApplyOp(all, Head(ds)), Tail(ds))
Orderings(n) == {p \in [1..n -> 1..n] : \A i, j \in 1..n : p[i] = p[j] => i = j}

\* C30: once every operation on the schedules file has completed, the file
\* is what the completed operations make of the first file in some order,
\* one after the other: no operation's effect is overwritten by another's
NoUpdateLost ==
    storeOps = <<>> =>
        \E p \in Orderings(Len(opsDone)) :
            schedFile = ApplyAll(InitialSchedules, [i \in 1..Len(opsDone) |-> opsDone[p[i]]])

=============================================================================
